---- MODULE Spec2Model ----
(***************************************************************************)
(* GIS-to-graph transformation core of the clean water toolkit             *)
(* (cwm/cleanwater/transform/gis_to_graph.py).                             *)
(*                                                                         *)
(* Units.  Coordinates and positions along a pipe are integers in          *)
(* thousandths of a CRS unit (millimetres for EPSG:27700), which is the    *)
(* precision the node key keeps.  distance_from_pipe_start_cm is in        *)
(* hundredths of a CRS unit, as in the code.  segment_length is in units   *)
(* of 1e-5 CRS unit, the precision of round(length, 5).                    *)
(*                                                                         *)
(* Geometry.  A pipe is an axis-parallel straight line from (x0, y0) of    *)
(* the given length; a point that lies on it is identified by its          *)
(* position along the line.  A Python dict that may be empty ({}) is a     *)
(* sequence of length 0 or 1.                                              *)
(***************************************************************************)
EXTENDS Integers, Sequences, FiniteSets, TLC

(***************************************************************************)
(* Bounds of the model.                                                    *)
(***************************************************************************)
MaxJunctions == 2
MaxAssets == 2

(***************************************************************************)
(* Constants of cleanwater/core/constants.py.                              *)
(***************************************************************************)
PIPE_END__NAME == "pipe_end"
PIPE_JUNCTION__NAME == "pipe_junction"
POINT_ASSET__NAME == "point_asset"
NETWORK_NODE__LABEL == "NetworkNode"
PIPE_NODE__LABEL == "PipeNode"
PIPE_JUNCTION__LABEL == "PipeJunction"
PIPE_END__LABEL == "PipeEnd"
POINT_ASSET__LABEL == "PointAsset"

\* GisToGraph.point_asset_names: the fixed type-ordering list.
point_asset_names == <<"hydrant", "network_opt_valve", "logger">>

(***************************************************************************)
(* Python built-ins used by the code.                                      *)
(***************************************************************************)
\* round(n / d) for n >= 0, d > 0: Python rounds halves to the even integer.
PyRound(n, d) ==
    LET q == n \div d
        r == n % d
    IN  IF 2 * r < d THEN q
        ELSE IF 2 * r > d THEN q + 1
        ELSE IF q % 2 = 0 THEN q ELSE q + 1

\* list.index(x)
RECURSIVE IndexFrom(_, _, _)
IndexFrom(s, x, i) ==
    IF i > Len(s) THEN -1
    ELSE IF s[i] = x THEN i - 1
    ELSE IndexFrom(s, x, i + 1)

ListIndex(s, x) == IndexFrom(s, x, 1)

\* x in list
InList(x, s) == \E i \in 1..Len(s) : s[i] = x

\* sorted(list) of integers: insertion sort, stable.
RECURSIVE InsertSorted(_, _)
InsertSorted(s, x) ==
    IF s = <<>> THEN <<x>>
    ELSE IF x < s[1] THEN <<x>> \o s
    ELSE <<s[1]>> \o InsertSorted(Tail(s), x)

RECURSIVE Sorted(_)
Sorted(s) ==
    IF s = <<>> THEN <<>>
    ELSE InsertSorted(Sorted(SubSeq(s, 1, Len(s) - 1)), s[Len(s)])

\* list(set(list)): the distinct elements (their order is unspecified in
\* Python; only the length and element 0 of a one-element result are read).
RECURSIVE Distinct(_)
Distinct(s) ==
    IF s = <<>> THEN <<>>
    ELSE LET d == Distinct(SubSeq(s, 1, Len(s) - 1))
         IN  IF InList(s[Len(s)], d) THEN d ELSE Append(d, s[Len(s)])

\* flatten_concatenation(matrix)
RECURSIVE flatten_concatenation(_)
flatten_concatenation(matrix) ==
    IF matrix = <<>> THEN <<>>
    ELSE matrix[1] \o flatten_concatenation(Tail(matrix))

\* bisect.bisect_right(a, x, key=dist): the index after the last entry whose
\* key is <= x, found by the library's binary search on [lo, hi).
RECURSIVE BisectLoop(_, _, _, _)
BisectLoop(a, x, lo, hi) ==
    IF lo >= hi THEN lo
    ELSE LET mid == (lo + hi) \div 2
         IN  IF x < a[mid + 1].distance_from_pipe_start_cm
             THEN BisectLoop(a, x, lo, mid)
             ELSE BisectLoop(a, x, mid + 1, hi)

\* Faulty variant: the new entry always goes to the end of the list.
BisectRight_append(a, x) == Len(a)

BisectRight(a, x) == BisectLoop(a, x, 0, Len(a))

\* list.insert(i, item) with a 0-based index.
ListInsert(a, i, item) ==
    SubSeq(a, 1, i) \o <<item>> \o SubSeq(a, i + 1, Len(a))

(***************************************************************************)
(* Node Key Encoder.                                                       *)
(***************************************************************************)
\* int(str(round(c, 3)).replace(".", "")) for a coordinate of m thousandths,
\* m >= 0.  str() of a float prints the shortest decimal that reads back:
\* the integer part, the point and the fraction without trailing zeros, but
\* at least one fractional digit ("15.0", "1.5", "0.15", "0.015").
CoordRepr(m) ==
    LET ip == m \div 1000
        fr == m % 1000
    IN  IF fr = 0 THEN ip * 10
        ELSE IF fr % 100 = 0 THEN ip * 10 + fr \div 100
        ELSE IF fr % 10 = 0 THEN ip * 100 + fr \div 10
        ELSE ip * 1000 + fr

\* Sqids.encode(numbers): an id that decodes to exactly the list of numbers
\* it was made from.  The id is written here as the numbers joined by ",".
RECURSIVE SqidsEncode(_)
SqidsEncode(numbers) ==
    IF Len(numbers) = 1 THEN ToString(numbers[1])
    ELSE ToString(numbers[1]) \o "," \o SqidsEncode(Tail(numbers))

\* The integer list _encode_node_key hands to the encoder.
EncodeInput(point, extra_params) ==
    <<CoordRepr(point[1]), CoordRepr(point[2])>> \o extra_params

_encode_node_key(point, extra_params) ==
    SqidsEncode(EncodeInput(point, extra_params))

(***************************************************************************)
(* Geometry: shapely and GEOS on an axis-parallel straight line.           *)
(***************************************************************************)
\* The point of the line at position p (thousandths) from its start.
PointAt(geom, p) ==
    IF geom.axis = "x" THEN <<geom.x0 + p, geom.y0>>
    ELSE <<geom.x0, geom.y0 + p>>

Clamp(v, lo, hi) == IF v < lo THEN lo ELSE IF v > hi THEN hi ELSE v

\* shapely.line_locate_point(line, point) with normalized left at False: the
\* distance along the line to the projection of the point, in thousandths.
line_locate_point(geom, point) ==
    LET raw == IF geom.axis = "x" THEN point[1] - geom.x0
               ELSE point[2] - geom.y0
    IN  Clamp(raw, 0, geom.length)

\* shapely.ops.substring(line, start_dist, end_dist, normalized), for
\* non-negative distances given in thousandths: the part of the line between
\* the two distances, as its two ends in millionths from the line's start.
\* Equal distances, or (normalized) two fractions >= 1, give a point; a
\* distance beyond the end of the line is clamped to the end (interpolate).
substring(geom, start_dist, end_dist, normalized) ==
    LET len == geom.length * 1000
        s == IF normalized THEN start_dist * geom.length ELSE start_dist * 1000
        e == IF normalized THEN end_dist * geom.length ELSE end_dist * 1000
        sp == Clamp(s, 0, len)
        ep == Clamp(e, 0, len)
    IN  IF start_dist = end_dist THEN [lo |-> sp, hi |-> sp]
        ELSE IF normalized /\ start_dist >= 1000 /\ end_dist >= 1000
             THEN [lo |-> len, hi |-> len]
        ELSE IF ~normalized /\ s >= len /\ e >= len
             THEN [lo |-> len, hi |-> len]
        ELSE IF sp <= ep THEN [lo |-> sp, hi |-> ep]
        ELSE [lo |-> ep, hi |-> sp]

\* LineString.length of a substring result, in millionths.
GeomLength(part) == part.hi - part.lo

\* core/utils.py normalised_point_position_on_line: (length of the line part
\* up to the projection, in millionths; normalised position as the fraction
\* num/den).
normalised_point_position_on_line(geom, point) ==
    LET distance_from_line_start == line_locate_point(geom, point)
        line_part == substring(geom, 0, distance_from_line_start, FALSE)
    IN  <<GeomLength(line_part),
          [num |-> geom.length - (geom.length - distance_from_line_start),
           den |-> geom.length]>>

(***************************************************************************)
(* Geometry Intersection Engine.                                           *)
(* A candidate's "wkt" is [geom_type, points]: for a line, points are the  *)
(* points where it meets the base pipe (what GEOS intersection returns);   *)
(* for a point asset, the asset's own point.                               *)
(***************************************************************************)
\* _get_intersecting_geometry: [ok, geom_type, points]
_get_intersecting_geometry(wkt) ==
    IF wkt.geom_type = "LineString"
    THEN [ok |-> TRUE,
          geom_type |-> IF Len(wkt.points) = 1 THEN "Point"
                        ELSE IF Len(wkt.points) > 1 THEN "MultiPoint"
                        ELSE "LineString",
          points |-> wkt.points]
    ELSE IF wkt.geom_type = "Point"
    THEN [ok |-> TRUE, geom_type |-> "Point", points |-> wkt.points]
    ELSE [ok |-> FALSE, geom_type |-> wkt.geom_type, points |-> <<>>]

\* Faulty variant: the distance is scaled by 1000 instead of 100.
PositionRecord_mm(base_pipe_geom, junction_or_asset, point) ==
    LET intersection_params ==
            normalised_point_position_on_line(base_pipe_geom, point)
    IN  [intersection_point_geometry |-> point,
         distance_from_pipe_start_cm |-> PyRound(intersection_params[1], 1000),
         normalised_position |-> intersection_params[2]]
        @@ junction_or_asset

\* One output record of _map_get_normalised_positions.
PositionRecord(base_pipe_geom, junction_or_asset, point) ==
    LET intersection_params ==
            normalised_point_position_on_line(base_pipe_geom, point)
    IN  [intersection_point_geometry |-> point,
         distance_from_pipe_start_cm |-> PyRound(intersection_params[1], 10000),
         normalised_position |-> intersection_params[2]]
        @@ junction_or_asset

\* _map_get_normalised_positions: [ok, data].  junction_or_asset["wkt"]
\* raises on an object that has no such item.
_map_get_normalised_positions(base_pipe_geom, junction_or_asset) ==
    LET intersection_geom == _get_intersecting_geometry(junction_or_asset.wkt)
    IN  IF "wkt" \notin DOMAIN junction_or_asset
        THEN [ok |-> FALSE, data |-> <<>>]
        ELSE IF ~intersection_geom.ok THEN [ok |-> FALSE, data |-> <<>>]
        ELSE IF intersection_geom.geom_type = "Point"
        THEN [ok |-> TRUE,
              data |-> <<PositionRecord(base_pipe_geom, junction_or_asset,
                                        intersection_geom.points[1])>>]
        ELSE IF intersection_geom.geom_type = "MultiPoint"
        THEN [ok |-> TRUE,
              data |-> [i \in 1..Len(intersection_geom.points) |->
                           PositionRecord(base_pipe_geom, junction_or_asset,
                                          intersection_geom.points[i])]]
        ELSE [ok |-> FALSE, data |-> <<>>]

\* _get_connections_points_on_pipe: [ok, data]; an exception of one
\* candidate ends the whole call.
RECURSIVE _get_connections_points_on_pipe(_, _)
_get_connections_points_on_pipe(base_pipe, intersected_objects) ==
    IF intersected_objects = <<>> THEN [ok |-> TRUE, data |-> <<>>]
    ELSE LET n == Len(intersected_objects)
             head == _get_connections_points_on_pipe(
                         base_pipe, SubSeq(intersected_objects, 1, n - 1))
             intersection == _map_get_normalised_positions(
                                 base_pipe.geometry, intersected_objects[n])
         IN  IF head.ok /\ intersection.ok
             THEN [ok |-> TRUE, data |-> head.data \o intersection.data]
             ELSE [ok |-> FALSE, data |-> <<>>]

(***************************************************************************)
(* Pipe Topology Builder: the ordered candidate-node list of one pipe.     *)
(***************************************************************************)
\* Faulty variant: the first utility is taken without looking at the others.
_get_utility_first(qs_object) ==
    IF Len(qs_object.utilities) = 0 THEN [ok |-> FALSE, value |-> ""]
    ELSE [ok |-> TRUE, value |-> qs_object.utilities[1]]

\* _get_utility: [ok, value].  More than one distinct utility raises; so
\* does utilities[0] of a pipe without any DMA.
_get_utility(qs_object) ==
    LET utilities == Distinct(qs_object.utilities)
    IN  IF Len(utilities) > 1 THEN [ok |-> FALSE, value |-> ""]
        ELSE IF Len(utilities) = 0 THEN [ok |-> FALSE, value |-> ""]
        ELSE [ok |-> TRUE, value |-> utilities[1]]

\* _get_non_termini_intersecting_pipes
_get_non_termini_intersecting_pipes(base_pipe, junctions_with_positions) ==
    LET termini_intersecting_pipe_tags ==
            base_pipe.line_start_intersection_tags
                \o base_pipe.line_end_intersection_tags
    IN  SelectSeq(junctions_with_positions,
                  LAMBDA pipe : ~InList(pipe.tag, termini_intersecting_pipe_tags))

\* _set_terminal_nodes: [ok, nodes]
_set_terminal_nodes(base_pipe) ==
    LET start_node_distance_cm == 0
        end_node_distance_cm == PyRound(base_pipe.pipe_length, 10)
        line_start_intersection_tags == base_pipe.line_start_intersection_tags
        line_end_intersection_tags == base_pipe.line_end_intersection_tags
        start_node_tags == Sorted(<<base_pipe.tag>> \o line_start_intersection_tags)
        end_node_tags == Sorted(<<base_pipe.tag>> \o line_end_intersection_tags)
        start_node_type == IF line_start_intersection_tags = <<>>
                           THEN PIPE_END__NAME ELSE PIPE_JUNCTION__NAME
        end_node_type == IF line_end_intersection_tags = <<>>
                         THEN PIPE_END__NAME ELSE PIPE_JUNCTION__NAME
        utility == _get_utility(base_pipe)
    IN  IF ~utility.ok THEN [ok |-> FALSE, nodes |-> <<>>]
        ELSE [ok |-> TRUE,
              nodes |-> <<
                base_pipe @@
                [pipe_tags |-> start_node_tags,
                 node_type |-> start_node_type,
                 distance_from_pipe_start_cm |-> start_node_distance_cm,
                 intersection_point_geometry |-> base_pipe.start_point_geom,
                 utility_name |-> utility.value],
                base_pipe @@
                [pipe_tags |-> end_node_tags,
                 node_type |-> end_node_type,
                 distance_from_pipe_start_cm |-> end_node_distance_cm,
                 intersection_point_geometry |-> base_pipe.end_point_geom,
                 utility_name |-> utility.value] >>]

\* nodes_ordered[i]["pipe_tags"] = sorted(pipe_tags + [pipe_tag]), 0-based i.
AppendPipeTag(nodes_ordered, i, pipe_tag) ==
    [nodes_ordered EXCEPT ![i + 1] =
        [@ EXCEPT !.pipe_tags = Sorted(Append(@, pipe_tag))]]

\* The index _set_non_terminal_nodes merges a repeated distance into: the
\* loop variable position_index, as the last insertion (or 0) left it.
MergeIndex(nodes_ordered, position_index, distance_from_pipe_start_cm) ==
    position_index

\* One iteration of the loop of _set_non_terminal_nodes on the loop state
\* [nodes_ordered, distances, position_index].
NonTerminalStep(base_pipe, st, pipe) ==
    LET pipe_tag == pipe.tag
        distance_from_pipe_start_cm == pipe.distance_from_pipe_start_cm
        tags == Sorted(<<pipe_tag, base_pipe.tag>>)
    IN  IF ~InList(distance_from_pipe_start_cm, st.distances)
        THEN LET position_index ==
                     BisectRight(st.nodes_ordered, distance_from_pipe_start_cm)
             IN  [nodes_ordered |->
                    ListInsert(st.nodes_ordered, position_index,
                        base_pipe @@
                        [pipe_tags |-> tags,
                         node_type |-> PIPE_JUNCTION__NAME,
                         utility_name |-> _get_utility(base_pipe).value,
                         distance_from_pipe_start_cm |-> distance_from_pipe_start_cm,
                         intersection_point_geometry |->
                             pipe.intersection_point_geometry]),
                  distances |-> Append(st.distances, distance_from_pipe_start_cm),
                  position_index |-> position_index]
        ELSE [st EXCEPT !.nodes_ordered =
                 AppendPipeTag(st.nodes_ordered,
                               MergeIndex(st.nodes_ordered, st.position_index,
                                          distance_from_pipe_start_cm),
                               pipe_tag)]

RECURSIVE NonTerminalLoop(_, _, _)
NonTerminalLoop(base_pipe, st, pipes) ==
    IF pipes = <<>> THEN st
    ELSE NonTerminalLoop(base_pipe, NonTerminalStep(base_pipe, st, pipes[1]),
                         Tail(pipes))

\* _set_non_terminal_nodes
_set_non_terminal_nodes(base_pipe, nodes_ordered, non_termini_intersecting_pipes) ==
    NonTerminalLoop(
        base_pipe,
        [nodes_ordered |-> nodes_ordered,
         distances |-> [i \in 1..Len(nodes_ordered) |->
                           nodes_ordered[i].distance_from_pipe_start_cm],
         position_index |-> 0],
        non_termini_intersecting_pipes).nodes_ordered

\* bisect.insort(a, item, key=dist)
Insort(a, item) ==
    ListInsert(a, BisectRight(a, item.distance_from_pipe_start_cm), item)

\* _set_point_asset_properties
RECURSIVE _set_point_asset_properties(_, _, _)
_set_point_asset_properties(base_pipe, nodes_ordered, point_assets_with_positions) ==
    IF point_assets_with_positions = <<>> THEN nodes_ordered
    ELSE LET asset == point_assets_with_positions[1]
         IN  _set_point_asset_properties(
                 base_pipe,
                 Insort(nodes_ordered,
                        asset @@
                        [node_type |-> POINT_ASSET__NAME,
                         dma_codes |-> base_pipe.dma_codes,
                         dma_names |-> base_pipe.dma_names,
                         utility_name |-> _get_utility(base_pipe).value]),
                 Tail(point_assets_with_positions))

\* _set_node_properties: [ok, nodes]
_set_node_properties(base_pipe, junctions_with_positions, point_assets_with_positions) ==
    LET non_termini_intersecting_pipes ==
            _get_non_termini_intersecting_pipes(base_pipe, junctions_with_positions)
        terminal == _set_terminal_nodes(base_pipe)
    IN  IF ~terminal.ok THEN terminal
        ELSE [ok |-> TRUE,
              nodes |-> _set_point_asset_properties(
                            base_pipe,
                            _set_non_terminal_nodes(base_pipe, terminal.nodes,
                                                    non_termini_intersecting_pipes),
                            point_assets_with_positions)]

(***************************************************************************)
(* Consolidation and per-group node materialization.                       *)
(***************************************************************************)
\* _consolidate_nodes_on_position (round() of an integer distance is the
\* distance itself).
RECURSIVE ConsolidateLoop(_, _, _)
ConsolidateLoop(consolidated_nodes, prev_distance, rest) ==
    IF rest = <<>> THEN consolidated_nodes
    ELSE LET node == rest[1]
             current_distance == node.distance_from_pipe_start_cm
             n == Len(consolidated_nodes)
         IN  ConsolidateLoop(
                 IF current_distance = prev_distance
                 THEN [consolidated_nodes EXCEPT ![n] = Append(@, node)]
                 ELSE Append(consolidated_nodes, <<node>>),
                 current_distance, Tail(rest))

_consolidate_nodes_on_position(nodes_ordered) ==
    ConsolidateLoop(<<<<nodes_ordered[1]>>>>,
                    nodes_ordered[1].distance_from_pipe_start_cm,
                    Tail(nodes_ordered))

\* _set_pipe_properties
_set_pipe_properties(node, pipe_node_data) ==
    LET pipe_type_encode_index ==
            IF InList("PipeJunction", pipe_node_data.node_labels) THEN 0 ELSE 1
    IN  [node_key |-> _encode_node_key(node.intersection_point_geometry,
                                       <<pipe_type_encode_index>>),
         pipe_tags |-> node.pipe_tags]
        @@ pipe_node_data

\* _merge_pipe_junction_node
_merge_pipe_junction_node(node) ==
    _set_pipe_properties(
        node, [node_labels |-> <<PIPE_NODE__LABEL, PIPE_JUNCTION__LABEL>>])

\* _merge_pipe_end_node
_merge_pipe_end_node(node) ==
    _set_pipe_properties(
        node, [node_labels |-> <<PIPE_NODE__LABEL, PIPE_END__LABEL>>])

\* _handle_pipe_asset_node_labels: the junction synthesized for a lone asset.
_handle_pipe_asset_node_labels(node) ==
    LET node_encode_index == ListIndex(point_asset_names, node.asset_name)
    IN  [node_key |-> _encode_node_key(node.intersection_point_geometry,
                                       <<node_encode_index>>),
         node_labels |-> <<PIPE_NODE__LABEL, PIPE_JUNCTION__LABEL>>]

\* _create_asset_node (the optional subtype and acoustic_logger attributes
\* are absent from the candidates of this model).
_create_asset_node(node) ==
    LET node_encode_index == ListIndex(point_asset_names, node.asset_name)
    IN  [node_labels |-> <<NETWORK_NODE__LABEL, POINT_ASSET__LABEL,
                           node.asset_label>>,
         node_key |-> _encode_node_key(node.intersection_point_geometry,
                                       <<node_encode_index>>),
         tag |-> node.tag]

\* _merge_point_asset_node: <<pipe_node_data, asset_node_data>>
_merge_point_asset_node(node) ==
    LET asset_node_data == _create_asset_node(node)
    IN  IF "is_non_termini_asset_node" \in DOMAIN node
           /\ node.is_non_termini_asset_node
        THEN << <<_handle_pipe_asset_node_labels(node)>>, <<asset_node_data>> >>
        ELSE << <<>>, <<asset_node_data>> >>

\* _reconfigure_nodes: [ok, pipe_node_data, asset_node_data]
_reconfigure_nodes(node) ==
    IF node.node_type = PIPE_JUNCTION__NAME
    THEN [ok |-> TRUE, pipe_node_data |-> <<_merge_pipe_junction_node(node)>>,
          asset_node_data |-> <<>>]
    ELSE IF node.node_type = PIPE_END__NAME
    THEN [ok |-> TRUE, pipe_node_data |-> <<_merge_pipe_end_node(node)>>,
          asset_node_data |-> <<>>]
    ELSE IF node.node_type = POINT_ASSET__NAME
    THEN LET Unpack(merged) ==
                 [ok |-> TRUE, pipe_node_data |-> merged[1],
                  asset_node_data |-> merged[2]]
         IN  Unpack(_merge_point_asset_node(node))
    ELSE [ok |-> FALSE, pipe_node_data |-> <<>>, asset_node_data |-> <<>>]

\* _set_network_node_default_props (without the "dmas" JSON string)
_set_network_node_default_props(nodes) ==
    [utility |-> nodes[1].utility_name,
     coords_27700 |-> nodes[1].intersection_point_geometry,
     dma_codes |-> nodes[1].dma_codes,
     dma_names |-> nodes[1].dma_names]

\* _merge_all_pipe_node_props
_merge_all_pipe_node_props(default_props, pipe_node_data) ==
    LET all_pipe_node_data == pipe_node_data @@ default_props
    IN  [all_pipe_node_data EXCEPT
            !.node_labels = Append(@, NETWORK_NODE__LABEL)]

\* _merge_all_asset_node_props
_merge_all_asset_node_props(default_props, asset_node_data) ==
    LET all_asset_node_data == asset_node_data @@ default_props
    IN  [all_asset_node_data EXCEPT
            !.node_labels = Append(@, NETWORK_NODE__LABEL)]

\* create_dma_data
create_dma_data(node_data) ==
    LET n == IF Len(node_data.dma_codes) < Len(node_data.dma_names)
             THEN Len(node_data.dma_codes) ELSE Len(node_data.dma_names)
    IN  [i \in 1..n |-> [code |-> node_data.dma_codes[i],
                         name |-> node_data.dma_names[i],
                         to_node_key |-> node_data.node_key]]

\* create_utility_data
create_utility_data(node_data) ==
    <<[name |-> node_data.utility, to_node_key |-> node_data.node_key]>>

\* One iteration of the loop of _create_pipe_asset_nodes.
PipeAssetStep(default_props, acc, node) ==
    LET Collect(ok, pipe_data, asset_data) ==
            [ok |-> acc.ok /\ ok,
             all_pipe_node_data |->
                 IF pipe_data # <<>> THEN pipe_data ELSE acc.all_pipe_node_data,
             all_asset_node_data |->
                 IF asset_data # <<>> THEN asset_data ELSE acc.all_asset_node_data,
             all_asset_node_labels |->
                 IF asset_data # <<>>
                 THEN Append(acc.all_asset_node_labels, node.asset_label)
                 ELSE acc.all_asset_node_labels,
             all_dma_data |->
                 acc.all_dma_data
                     \o (IF pipe_data # <<>>
                         THEN create_dma_data(pipe_data[1]) ELSE <<>>)
                     \o (IF asset_data # <<>>
                         THEN create_dma_data(asset_data[1]) ELSE <<>>),
             all_utility_data |->
                 acc.all_utility_data
                     \o (IF pipe_data # <<>>
                         THEN create_utility_data(pipe_data[1]) ELSE <<>>)
                     \o (IF asset_data # <<>>
                         THEN create_utility_data(asset_data[1]) ELSE <<>>)]
        Merge(r) ==
            Collect(r.ok,
                    IF r.pipe_node_data # <<>>
                    THEN <<_merge_all_pipe_node_props(default_props,
                                                      r.pipe_node_data[1])>>
                    ELSE <<>>,
                    IF r.asset_node_data # <<>>
                    THEN <<_merge_all_asset_node_props(default_props,
                                                       r.asset_node_data[1])>>
                    ELSE <<>>)
    IN  Merge(_reconfigure_nodes(node))

RECURSIVE PipeAssetLoop(_, _, _)
PipeAssetLoop(default_props, acc, cnodes) ==
    IF cnodes = <<>> THEN acc
    ELSE PipeAssetLoop(default_props,
                       PipeAssetStep(default_props, acc, cnodes[1]),
                       Tail(cnodes))

\* Faulty variant: a lone point asset is never marked.
MarkNonTermini_never(cnodes) == cnodes

\* The group as the loop sees it: a lone point asset is marked as a
\* non-termini asset node.
MarkNonTermini(cnodes) ==
    IF Len(cnodes) = 1 /\ cnodes[1].node_type = POINT_ASSET__NAME
    THEN <<[is_non_termini_asset_node |-> TRUE] @@ cnodes[1]>>
    ELSE cnodes

\* _create_pipe_asset_nodes
_create_pipe_asset_nodes(cnodes) ==
    PipeAssetLoop(_set_network_node_default_props(cnodes),
                  [ok |-> TRUE,
                   all_pipe_node_data |-> <<>>,
                   all_asset_node_data |-> <<>>,
                   all_asset_node_labels |-> <<>>,
                   all_dma_data |-> <<>>,
                   all_utility_data |-> <<>>],
                  MarkNonTermini(cnodes))

(***************************************************************************)
(* Edge Assembler.                                                         *)
(***************************************************************************)
\* Faulty variant: the attachment edge runs from the asset to the pipe node.
_create_pipe_node_to_asset_node_edge_reversed(pipe_node, asset_nodes_for_pipe_node) ==
    [i \in 1..Len(asset_nodes_for_pipe_node) |->
        [from_node_key |-> asset_nodes_for_pipe_node[i].node_key,
         to_node_key |-> pipe_node.node_key,
         edge_key |-> asset_nodes_for_pipe_node[i].node_key \o "-"
                          \o pipe_node.node_key]]

\* _create_pipe_node_to_asset_node_edge
_create_pipe_node_to_asset_node_edge(pipe_node, asset_nodes_for_pipe_node) ==
    [i \in 1..Len(asset_nodes_for_pipe_node) |->
        [from_node_key |-> pipe_node.node_key,
         to_node_key |-> asset_nodes_for_pipe_node[i].node_key,
         edge_key |-> pipe_node.node_key \o "-"
                          \o asset_nodes_for_pipe_node[i].node_key]]

\* One iteration of the loop of _set_network_node_and_edge_data.
\* pipe_nodes[-1] of an empty list raises.
NodeEdgeStep(acc, cnodes) ==
    LET Extend(r, pipe_nodes) ==
            IF ~acc.ok \/ ~r.ok \/ pipe_nodes = <<>>
            THEN [acc EXCEPT !.ok = FALSE]
            ELSE [ok |-> TRUE,
                  pipe_nodes |-> pipe_nodes,
                  asset_nodes |-> Append(acc.asset_nodes, r.all_asset_node_data),
                  pipe_asset_edges |->
                      acc.pipe_asset_edges
                          \o _create_pipe_node_to_asset_node_edge(
                                 pipe_nodes[Len(pipe_nodes)],
                                 r.all_asset_node_data),
                  all_dma_data |-> acc.all_dma_data \o r.all_dma_data,
                  all_utility_data |->
                      acc.all_utility_data \o r.all_utility_data,
                  all_asset_node_labels |->
                      acc.all_asset_node_labels \o r.all_asset_node_labels]
        Step(r) == Extend(r, acc.pipe_nodes \o r.all_pipe_node_data)
    IN  Step(_create_pipe_asset_nodes(cnodes))

RECURSIVE NodeEdgeLoop(_, _)
NodeEdgeLoop(acc, consolidated_nodes) ==
    IF consolidated_nodes = <<>> THEN acc
    ELSE NodeEdgeLoop(NodeEdgeStep(acc, consolidated_nodes[1]),
                      Tail(consolidated_nodes))

\* The empty lists _set_network_node_and_edge_data starts from.
NodeEdgeInit ==
    [ok |-> TRUE,
     pipe_nodes |-> <<>>,
     asset_nodes |-> <<>>,
     pipe_asset_edges |-> <<>>,
     all_dma_data |-> <<>>,
     all_utility_data |-> <<>>,
     all_asset_node_labels |-> <<>>]

\* _set_network_node_and_edge_data
_set_network_node_and_edge_data(consolidated_nodes) ==
    NodeEdgeLoop(NodeEdgeInit, consolidated_nodes)

\* The location _get_edges_by_pipe hands to substring for one node: the
\* distance line_locate_point returns (normalized is left at its default).
EdgeLocation(line_geom, node) ==
    line_locate_point(line_geom, node.coords_27700)

\* The edge _get_edges_by_pipe emits for the pair (from_node, to_node).
PipeEdge(base_pipe, from_node, to_node) ==
    LET line_geom == base_pipe.geometry
        from_location == EdgeLocation(line_geom, from_node)
        to_location == EdgeLocation(line_geom, to_node)
        line_segment == substring(line_geom, from_location, to_location, TRUE)
    IN  [from_node_key |-> from_node.node_key,
         to_node_key |-> to_node.node_key,
         edge_key |-> from_node.node_key \o "-" \o to_node.node_key,
         tag |-> base_pipe.tag,
         asset_name |-> base_pipe.asset_name,
         asset_label |-> base_pipe.asset_label,
         dma_codes |-> base_pipe.dma_codes,
         dma_names |-> base_pipe.dma_names,
         segment_length |-> PyRound(GeomLength(line_segment), 10),
         segment_wkt |-> line_segment]

\* Faulty variant: from_node is never advanced, every edge starts at the
\* first node.
_get_edges_by_pipe_stuck(base_pipe, nodes_by_pipe) ==
    [i \in 1..(Len(nodes_by_pipe) - 1) |->
        PipeEdge(base_pipe, nodes_by_pipe[1], nodes_by_pipe[i + 1])]

\* _get_edges_by_pipe (the pipe_type, material and diameter of the pipe are
\* copied onto each edge and are left out here).
_get_edges_by_pipe(base_pipe, nodes_by_pipe) ==
    [i \in 1..(Len(nodes_by_pipe) - 1) |->
        PipeEdge(base_pipe, nodes_by_pipe[i], nodes_by_pipe[i + 1])]

\* network_edge_labels after _get_edges_by_pipe.
EdgeLabelsAfter(network_edge_labels, base_pipe, nodes_by_pipe) ==
    IF Len(nodes_by_pipe) > 1 /\ ~InList(base_pipe.asset_label, network_edge_labels)
    THEN Append(network_edge_labels, base_pipe.asset_label)
    ELSE network_edge_labels

\* _set_nodes_and_edges
_set_nodes_and_edges(base_pipe, nodes_ordered) ==
    LET Result(r) ==
            [ok |-> r.ok,
             nodes_by_pipe |-> r.pipe_nodes,
             edges_by_pipe |->
                 IF r.ok THEN _get_edges_by_pipe(base_pipe, r.pipe_nodes)
                 ELSE <<>>,
             asset_nodes_by_pipe |-> r.asset_nodes,
             pipe_node_to_asset_node_edges |-> r.pipe_asset_edges,
             dma_data |-> r.all_dma_data,
             utility_data |-> r.all_utility_data,
             all_asset_node_labels |-> r.all_asset_node_labels]
    IN  Result(_set_network_node_and_edge_data(
                   _consolidate_nodes_on_position(nodes_ordered)))

(***************************************************************************)
(* State.                                                                  *)
(***************************************************************************)
VARIABLES
    pc,                           \* position in the per-pipe transformation
    base_pipe,                    \* the base pipe dict
    junctions_with_positions,     \* junction candidates with positions
    point_assets_with_positions,  \* asset candidates with positions
    nodes_ordered,                \* the ordered candidate-node list
    out,                          \* the result of _set_nodes_and_edges
    network_edge_labels,          \* GisToGraph.network_edge_labels
    enc_in,                       \* arguments of _encode_node_key calls
    enc_out,                      \* their encoder inputs and keys
    conn_in,                      \* argument of _get_connections_points_on_pipe
    conn_out,                     \* its result
    pipes,                        \* the batch of pipe objects of the aggregator
    all_by_pipe,                  \* per-pipe results, in the order computed
    sink,                         \* the aggregator's class: neo4j, nx or nk
    mode,                         \* sequential or parallel calculation
    pending,                      \* parallel mode: pipes whose worker still runs
    network_node_labels,          \* GisToGraph.network_node_labels
    db,                           \* the graph database
    G,                            \* GisToNx.G
    nk,                           \* GisToNk.G and GisToNk.node_index
    runs,                         \* completed sink calls
    handed,                       \* collections the last sink call read
    cov_graph,                    \* coverage: the pipe graph in the database
    cpc,                          \* coverage: position in compute_cov
    logger_i,                     \* process_loggers: index of the logger
    connected_edges,              \* process_loggers: edges at the logger's node
    ce_i,                         \* process_loggers: index in connected_edges
    processed_edges,              \* the logger's set of processed edge ids
    processed_nodes,              \* the logger's set of processed node keys
    stack,                        \* frames of process_connected_edges
    coverage,                     \* per edge: coveredbyLogger / coverageLen
    csv,                          \* rows of the output file
    fraction,                     \* per edge: coverageFraction
    updates,                      \* calls of update_edge_attributes so far
    conv_in,                      \* arguments of convert_remaining_distance
    conv_out,                     \* its result
    run                           \* run_gis2neo4j: arguments, locals, batches

pipe_vars == <<pc, base_pipe, junctions_with_positions,
               point_assets_with_positions, nodes_ordered, out,
               network_edge_labels>>
key_vars == <<enc_in, enc_out>>
conn_vars == <<conn_in, conn_out>>
batch_vars == <<pipes, all_by_pipe>>
pipe_vars_but_pc == <<base_pipe, junctions_with_positions,
                      point_assets_with_positions, nodes_ordered, out,
                      network_edge_labels>>
agg_vars == <<sink, mode, pending, network_node_labels, db, G, nk, runs,
              handed>>
cov_vars == <<cov_graph, cpc, logger_i, connected_edges, ce_i,
              processed_edges, processed_nodes, stack, coverage, csv,
              fraction, updates>>
conv_vars == <<conv_in, conv_out>>
run_vars == <<run>>
ext_vars == <<agg_vars, cov_vars, conv_vars, run_vars>>

vars == <<pipe_vars, key_vars, conn_vars, batch_vars, ext_vars>>

\* The state of the sinks before any aggregator exists.
EmptyDb ==
    [nodes |-> <<>>, rels |-> <<>>, dmas |-> <<>>, in_dma |-> <<>>,
     utilities |-> <<>>, in_utility |-> <<>>]
EmptyNx == [nodes |-> {}, edges |-> {}]
EmptyNk == [node_index |-> <<>>, edges |-> <<>>]

\* run_gis2neo4j has not been called.
RunIdle == run = <<>>

AggIdle ==
    /\ sink = "none" /\ mode = "none" /\ pending = {}
    /\ network_node_labels = <<>>
    /\ db = EmptyDb /\ G = EmptyNx /\ nk = EmptyNk
    /\ runs = 0 /\ handed = <<>>

CovIdle ==
    /\ cov_graph = <<>> /\ cpc = "none" /\ logger_i = 0
    /\ connected_edges = <<>> /\ ce_i = 0
    /\ processed_edges = {} /\ processed_nodes = {}
    /\ stack = <<>> /\ coverage = <<>> /\ csv = <<>> /\ fraction = <<>>
    /\ updates = <<>>
    /\ conv_in = <<>> /\ conv_out = <<>>

(***************************************************************************)
(* Inputs of the per-pipe transformation.                                  *)
(***************************************************************************)
\* Pipe lengths in thousandths: one that rounds to 0 cm, one shorter than a
\* CRS unit, one longer.
PipeLengths == {3, 800, 2000}

\* Positions along the pipe (thousandths) where another pipe may cross and
\* where an asset may sit; 296 and 304 fall on the same rounded centimetre,
\* and a crossing may be reported at the pipe's own end.
JunctionPositions(length) == {p \in {296, 700} : p <= length} \cup {length}
AssetPositions(length) == {p \in {0, 304} : p <= length}

\* DMA memberships [code, name, utility] of a pipe.
DmaSets ==
    { <<>>,
      <<[code |-> "D1", name |-> "North", utility |-> "thames_water"]>>,
      <<[code |-> "D1", name |-> "North", utility |-> "thames_water"],
        [code |-> "D2", name |-> "South", utility |-> "thames_water"]>>,
      <<[code |-> "D1", name |-> "North", utility |-> "thames_water"],
        [code |-> "D3", name |-> "West", utility |-> "severn_trent_water"]>> }

\* Tags of the i-th junction candidate and the i-th asset candidate (the
\* base pipe's tag is 10).
JunctionTag(i) == i
AssetTag(i) == 100 + i

AssetLabel(asset_name) ==
    IF asset_name = "hydrant" THEN "Hydrant"
    ELSE IF asset_name = "network_opt_valve" THEN "NetworkOptValve"
    ELSE "Logger"

\* The base pipe dict of a pipe with the given line, DMAs and the tags of
\* the pipes touching its two ends.
BasePipe(geom, dmas, start_tags, end_tags) ==
    [id |-> 1,
     tag |-> 10,
     asset_name |-> "pipe_main",
     asset_label |-> "PipeMain",
     pipe_length |-> geom.length,
     dma_codes |-> [i \in 1..Len(dmas) |-> dmas[i].code],
     dma_names |-> [i \in 1..Len(dmas) |-> dmas[i].name],
     utilities |-> [i \in 1..Len(dmas) |-> dmas[i].utility],
     geometry |-> geom,
     start_point_geom |-> PointAt(geom, 0),
     end_point_geom |-> PointAt(geom, geom.length),
     line_start_intersection_tags |-> start_tags,
     line_end_intersection_tags |-> end_tags]

BasePipes ==
    { BasePipe([axis |-> "x", x0 |-> 1000, y0 |-> 2000, length |-> len],
               dmas, st, en) :
        len \in PipeLengths, dmas \in DmaSets,
        st \in {<<>>, <<JunctionTag(1)>>}, en \in {<<>>, <<JunctionTag(2)>>} }

\* Sequences of length 0..n over the set S.
SeqUpTo(S, n) == UNION { [1..k -> S] : k \in 0..n }

\* Junction candidates: the i-th is a pipe crossing the base pipe at one
\* point.
JunctionCandidates(geom) ==
    { [i \in 1..Len(ps) |->
          [tag |-> JunctionTag(i),
           wkt |-> [geom_type |-> "LineString",
                    points |-> <<PointAt(geom, ps[i])>>]]] :
        ps \in SeqUpTo(JunctionPositions(geom.length), MaxJunctions) }

\* Asset candidates: the i-th is a point asset of some type on the pipe.
AssetKinds(geom) ==
    { k \in { <<point_asset_names[t], p>> :
                 t \in 1..Len(point_asset_names),
                 p \in AssetPositions(geom.length) } :
        k[1] = "logger" => k[2] # 0 }

AssetCandidates(geom) ==
    { [i \in 1..Len(as) |->
          [tag |-> AssetTag(i),
           asset_name |-> as[i][1],
           asset_label |-> AssetLabel(as[i][1]),
           wkt |-> [geom_type |-> "Point",
                    points |-> <<PointAt(geom, as[i][2])>>]]] :
        as \in SeqUpTo(AssetKinds(geom), MaxAssets) }

NoOutput ==
    [ok |-> FALSE, nodes_by_pipe |-> <<>>, edges_by_pipe |-> <<>>,
     asset_nodes_by_pipe |-> <<>>, pipe_node_to_asset_node_edges |-> <<>>,
     dma_data |-> <<>>, utility_data |-> <<>>, all_asset_node_labels |-> <<>>]

(***************************************************************************)
(* The per-pipe transformation, stage by stage.  The two candidate lists   *)
(* are arguments of the transformation; each is drawn where the code first *)
(* uses it.                                                                *)
(***************************************************************************)
Init ==
    /\ pc = "start"
    /\ base_pipe \in BasePipes
    /\ junctions_with_positions = <<>>
    /\ point_assets_with_positions = <<>>
    /\ nodes_ordered = <<>>
    /\ out = NoOutput
    /\ network_edge_labels = <<>>
    /\ enc_in = <<>> /\ enc_out = <<>>
    /\ conn_in = <<>> /\ conn_out = <<>>
    /\ pipes = <<>> /\ all_by_pipe = <<>>
    /\ AggIdle /\ CovIdle /\ RunIdle

\* Terminal stage; a pipe of several utilities (or none) raises here.
SetTerminalNodes ==
    /\ pc = "start"
    /\ LET terminal == _set_terminal_nodes(base_pipe)
       IN  /\ pc' = IF terminal.ok THEN "terminal" ELSE "error"
           /\ nodes_ordered' = terminal.nodes
    /\ UNCHANGED <<base_pipe, junctions_with_positions,
                   point_assets_with_positions, out, network_edge_labels>>
    /\ UNCHANGED <<key_vars, conn_vars, batch_vars>>
    /\ UNCHANGED ext_vars

\* Non-terminal junction stage on the junction candidates of the call.
SetNonTerminalNodes ==
    /\ pc = "terminal"
    /\ \E pipe_junctions \in JunctionCandidates(base_pipe.geometry) :
         LET conn == _get_connections_points_on_pipe(base_pipe, pipe_junctions)
         IN  /\ junctions_with_positions' = conn.data
             /\ nodes_ordered' =
                    _set_non_terminal_nodes(
                        base_pipe, nodes_ordered,
                        _get_non_termini_intersecting_pipes(base_pipe, conn.data))
    /\ pc' = "junctions"
    /\ UNCHANGED <<base_pipe, point_assets_with_positions, out,
                   network_edge_labels>>
    /\ UNCHANGED <<key_vars, conn_vars, batch_vars>>
    /\ UNCHANGED ext_vars

\* Asset stage on the asset candidates of the call.
SetPointAssetProperties ==
    /\ pc = "junctions"
    /\ \E point_assets \in AssetCandidates(base_pipe.geometry) :
         LET conn == _get_connections_points_on_pipe(base_pipe, point_assets)
         IN  /\ point_assets_with_positions' = conn.data
             /\ nodes_ordered' =
                    _set_point_asset_properties(base_pipe, nodes_ordered, conn.data)
    /\ pc' = "assets"
    /\ UNCHANGED <<base_pipe, junctions_with_positions, out,
                   network_edge_labels>>
    /\ UNCHANGED <<key_vars, conn_vars, batch_vars>>
    /\ UNCHANGED ext_vars

\* Consolidation, node materialization and edge assembly.
SetNodesAndEdges ==
    /\ pc = "assets"
    /\ out' = _set_nodes_and_edges(base_pipe, nodes_ordered)
    /\ network_edge_labels' =
           EdgeLabelsAfter(network_edge_labels, base_pipe, out'.nodes_by_pipe)
    /\ pc' = "done"
    /\ UNCHANGED <<base_pipe, junctions_with_positions,
                   point_assets_with_positions, nodes_ordered>>
    /\ UNCHANGED <<key_vars, conn_vars, batch_vars>>
    /\ UNCHANGED ext_vars

Next ==
    \/ SetTerminalNodes
    \/ SetNonTerminalNodes
    \/ SetPointAssetProperties
    \/ SetNodesAndEdges

Spec == Init /\ [][Next]_vars

(***************************************************************************)
(* Properties of the per-pipe transformation (specification Spec).         *)
(***************************************************************************)

\* C1: once the terminal, junction and asset stages have run, the candidate
\* node list is sorted: distance_from_pipe_start_cm never decreases from one
\* entry to the next.
C1_PositionOrdering ==
    pc \in {"assets", "done"} =>
        \A i \in 1..(Len(nodes_ordered) - 1) :
            nodes_ordered[i].distance_from_pipe_start_cm
                <= nodes_ordered[i + 1].distance_from_pipe_start_cm

\* Two junction candidates arrive in descending order of distance, both are
\* inserted, and an asset has been inserted as well.
C1_Witness ==
    /\ pc = "assets"
    /\ Len(junctions_with_positions) >= 2
    /\ junctions_with_positions[1].distance_from_pipe_start_cm
           > junctions_with_positions[2].distance_from_pipe_start_cm
    /\ Len(point_assets_with_positions) >= 1
    /\ Len(nodes_ordered) >= 5

\* C2: for N >= 1 pipe nodes the edge assembler emits N-1 edges, the i-th
\* from node i to node i+1 with edge_key "<from_node_key>-<to_node_key>".
C2_EdgesPerPipe ==
    (pc = "done" /\ out.ok) =>
        /\ Len(out.nodes_by_pipe) >= 1
        /\ Len(out.edges_by_pipe) = Len(out.nodes_by_pipe) - 1
        /\ \A i \in 1..Len(out.edges_by_pipe) :
               /\ out.edges_by_pipe[i].from_node_key
                      = out.nodes_by_pipe[i].node_key
               /\ out.edges_by_pipe[i].to_node_key
                      = out.nodes_by_pipe[i + 1].node_key
               /\ out.edges_by_pipe[i].edge_key
                      = out.nodes_by_pipe[i].node_key \o "-"
                            \o out.nodes_by_pipe[i + 1].node_key

\* A pipe with exactly two nodes has produced exactly one edge.
C2_Witness ==
    /\ pc = "done"
    /\ out.ok
    /\ Len(out.nodes_by_pipe) = 2
    /\ Len(out.edges_by_pipe) = 1

\* C3: the segment lengths of a pipe's edges add up to the pipe's length
\* within 1e-3 CRS unit (100 units of 1e-5), whatever the pipe's length.
C3_LengthConservation ==
    (pc = "done" /\ out.ok) =>
        LET edges == out.edges_by_pipe
            Sum[i \in 0..Len(edges)] ==
                IF i = 0 THEN 0 ELSE Sum[i - 1] + edges[i].segment_length
            total == base_pipe.pipe_length * 100
        IN  /\ Sum[Len(edges)] - total <= 100
            /\ total - Sum[Len(edges)] <= 100

\* C4: at one coordinate pair a pipe node's key differs from every asset
\* node's key, and asset nodes of different types have different keys.
C4_KeysSeparateKinds ==
    (pc = "done" /\ out.ok) =>
        LET asset_nodes == flatten_concatenation(out.asset_nodes_by_pipe)
        IN  /\ \A i \in 1..Len(out.nodes_by_pipe), j \in 1..Len(asset_nodes) :
                   out.nodes_by_pipe[i].coords_27700 = asset_nodes[j].coords_27700
                       => out.nodes_by_pipe[i].node_key # asset_nodes[j].node_key
            /\ \A i, j \in 1..Len(asset_nodes) :
                   (/\ asset_nodes[i].coords_27700 = asset_nodes[j].coords_27700
                    /\ asset_nodes[i].node_labels[3] # asset_nodes[j].node_labels[3])
                       => asset_nodes[i].node_key # asset_nodes[j].node_key

\* C7: a pipe whose only candidate strictly between its ends is one asset
\* yields start, a synthesized PipeJunction at the asset's position and end,
\* one asset node, two pipe-segment edges through the synthesized junction
\* and one attachment edge from the synthesized junction to the asset node.
C7_LoneAsset ==
    (/\ pc = "done"
     /\ Len(nodes_ordered) = 3
     /\ nodes_ordered[2].node_type = POINT_ASSET__NAME
     /\ 0 < nodes_ordered[2].distance_from_pipe_start_cm
     /\ nodes_ordered[2].distance_from_pipe_start_cm
            < nodes_ordered[3].distance_from_pipe_start_cm)
    => LET asset_nodes == flatten_concatenation(out.asset_nodes_by_pipe)
           pipe_nodes == out.nodes_by_pipe
       IN  /\ out.ok
           /\ Len(pipe_nodes) = 3
           /\ pipe_nodes[1].coords_27700 = base_pipe.start_point_geom
           /\ pipe_nodes[3].coords_27700 = base_pipe.end_point_geom
           /\ InList(PIPE_JUNCTION__LABEL, pipe_nodes[2].node_labels)
           /\ pipe_nodes[2].coords_27700
                  = nodes_ordered[2].intersection_point_geometry
           /\ Len(asset_nodes) = 1
           /\ asset_nodes[1].tag = nodes_ordered[2].tag
           /\ Len(out.edges_by_pipe) = 2
           /\ out.edges_by_pipe[1].from_node_key = pipe_nodes[1].node_key
           /\ out.edges_by_pipe[1].to_node_key = pipe_nodes[2].node_key
           /\ out.edges_by_pipe[2].from_node_key = pipe_nodes[2].node_key
           /\ out.edges_by_pipe[2].to_node_key = pipe_nodes[3].node_key
           /\ Len(out.pipe_node_to_asset_node_edges) = 1
           /\ out.pipe_node_to_asset_node_edges[1].from_node_key
                  = pipe_nodes[2].node_key
           /\ out.pipe_node_to_asset_node_edges[1].to_node_key
                  = asset_nodes[1].node_key

\* The transformation has finished on a pipe with one asset strictly between
\* its ends and nothing else there.
C7_Witness ==
    /\ pc = "done"
    /\ Len(nodes_ordered) = 3
    /\ nodes_ordered[2].node_type = POINT_ASSET__NAME
    /\ 0 < nodes_ordered[2].distance_from_pipe_start_cm
    /\ nodes_ordered[2].distance_from_pipe_start_cm
           < nodes_ordered[3].distance_from_pipe_start_cm
    /\ Len(out.nodes_by_pipe) = 3

\* C8: a position group of exactly one pipe-structural entry and one asset
\* yields one pipe node, one asset node and one attachment edge from the
\* pipe node's key to the asset node's key, in either order of the entries.
C8_StructuralPlusAsset ==
    (pc = "done" /\ out.ok) =>
        LET groups == _consolidate_nodes_on_position(nodes_ordered)
            Holds(before, after, g) ==
                /\ after.ok
                /\ Len(after.pipe_nodes) = Len(before.pipe_nodes) + 1
                /\ Len(after.asset_nodes[g]) = 1
                /\ Len(after.pipe_asset_edges) = Len(before.pipe_asset_edges) + 1
                /\ after.pipe_asset_edges[Len(after.pipe_asset_edges)].from_node_key
                       = after.pipe_nodes[Len(after.pipe_nodes)].node_key
                /\ after.pipe_asset_edges[Len(after.pipe_asset_edges)].to_node_key
                       = after.asset_nodes[g][1].node_key
        IN  \A g \in 1..Len(groups) :
                (/\ Len(groups[g]) = 2
                 /\ Cardinality({i \in 1..2 :
                        groups[g][i].node_type = POINT_ASSET__NAME}) = 1)
                => LET before == NodeEdgeLoop(NodeEdgeInit, SubSeq(groups, 1, g - 1))
                       after == NodeEdgeStep(before, groups[g])
                       swapped == NodeEdgeStep(before, <<groups[g][2], groups[g][1]>>)
                   IN  /\ Holds(before, after, g)
                       /\ Holds(before, swapped, g)
                       /\ out.asset_nodes_by_pipe[g] = after.asset_nodes[g]
                       /\ swapped.pipe_nodes[Len(swapped.pipe_nodes)].node_key
                              = after.pipe_nodes[Len(after.pipe_nodes)].node_key
                       /\ swapped.asset_nodes[g][1].node_key
                              = after.asset_nodes[g][1].node_key

\* The transformation has finished on a pipe with a junction strictly inside
\* the pipe and an asset on the same rounded centimetre.
C8_Witness ==
    /\ pc = "done"
    /\ out.ok
    /\ \E i \in 1..(Len(nodes_ordered) - 1) :
           /\ nodes_ordered[i].node_type = PIPE_JUNCTION__NAME
           /\ nodes_ordered[i].distance_from_pipe_start_cm > 0
           /\ nodes_ordered[i + 1].node_type = POINT_ASSET__NAME
           /\ nodes_ordered[i + 1].distance_from_pipe_start_cm
                  = nodes_ordered[i].distance_from_pipe_start_cm
           /\ \A j \in 1..Len(nodes_ordered) :
                  nodes_ordered[j].distance_from_pipe_start_cm
                      = nodes_ordered[i].distance_from_pipe_start_cm
                  => j \in {i, i + 1}
    /\ Len(out.pipe_node_to_asset_node_edges) = 1

\* C10: a pipe whose DMAs name more than one utility is rejected before any
\* node, edge or membership record exists; a pipe whose DMAs all name one
\* utility is accepted and every node it yields carries that utility.
C10_MultiUtilityFatal ==
    LET utilities == Distinct(base_pipe.utilities)
        asset_nodes == flatten_concatenation(out.asset_nodes_by_pipe)
    IN  /\ Len(utilities) > 1 =>
               /\ pc \in {"start", "error"}
               /\ nodes_ordered = <<>>
               /\ out = NoOutput
        /\ Len(utilities) = 1 =>
               /\ pc # "error"
               /\ pc = "done" =>
                      /\ out.ok
                      /\ \A i \in 1..Len(out.nodes_by_pipe) :
                             out.nodes_by_pipe[i].utility = utilities[1]
                      /\ \A i \in 1..Len(asset_nodes) :
                             asset_nodes[i].utility = utilities[1]

\* The transformation has raised on a pipe whose DMAs name two utilities.
C10_Witness ==
    /\ pc = "error"
    /\ Len(Distinct(base_pipe.utilities)) > 1
    /\ out = NoOutput

(***************************************************************************)
(* Specification SpecKey: the Node Key Encoder on pairs of points.         *)
(***************************************************************************)
\* Coordinates in thousandths: 0.15, 1.5, 15.0, 1.05, 10.5, 1.296.
KeyCoords == {150, 1500, 15000, 1050, 10500, 1296}
KeyPoints == { <<x, y>> : x \in KeyCoords, y \in {200, 2000} }

InitKey ==
    /\ pc = "key"
    /\ enc_in \in [p : KeyPoints, q : KeyPoints, extra_params : {<<0>>, <<1>>}]
    /\ enc_out = <<>>
    /\ base_pipe = <<>>
    /\ junctions_with_positions = <<>>
    /\ point_assets_with_positions = <<>>
    /\ nodes_ordered = <<>>
    /\ out = NoOutput
    /\ network_edge_labels = <<>>
    /\ conn_in = <<>> /\ conn_out = <<>>
    /\ pipes = <<>> /\ all_by_pipe = <<>>
    /\ AggIdle /\ CovIdle /\ RunIdle

\* _encode_node_key on the two points with the same discriminators.
EncodeNodeKeys ==
    /\ pc = "key"
    /\ enc_out = <<>>
    /\ enc_out' = [p_input |-> EncodeInput(enc_in.p, enc_in.extra_params),
                   q_input |-> EncodeInput(enc_in.q, enc_in.extra_params),
                   p_key |-> _encode_node_key(enc_in.p, enc_in.extra_params),
                   q_key |-> _encode_node_key(enc_in.q, enc_in.extra_params)]
    /\ UNCHANGED <<pipe_vars, enc_in, conn_vars, batch_vars>>
    /\ UNCHANGED ext_vars

NextKey == EncodeNodeKeys

SpecKey == InitKey /\ [][NextKey]_vars

\* C5: two points whose rounded coordinates differ hand different integer
\* lists to the encoder under equal discriminators, and two points with
\* equal rounded coordinates get the same key.
C5_KeyInjective ==
    (pc = "key" /\ enc_out # <<>>) =>
        /\ enc_in.p # enc_in.q => enc_out.p_input # enc_out.q_input
        /\ enc_in.p = enc_in.q => enc_out.p_key = enc_out.q_key

(***************************************************************************)
(* Specification SpecConn: _get_connections_points_on_pipe on its own.     *)
(***************************************************************************)
MaxCandidates == 2

\* What a candidate's geometry may be against the base line: a line meeting
\* it in no, one or two points; a point asset on the line, beside it, or
\* beside it beyond its end; a polygon.
CandidateWkts(geom) ==
    { [geom_type |-> "LineString", points |-> <<>>],
      [geom_type |-> "LineString", points |-> <<PointAt(geom, 296)>>],
      [geom_type |-> "LineString",
       points |-> <<PointAt(geom, 700), PointAt(geom, 304)>>],
      [geom_type |-> "LineString",
       points |-> <<PointAt(geom, 0), PointAt(geom, geom.length)>>],
      [geom_type |-> "Point", points |-> <<PointAt(geom, 304)>>],
      [geom_type |-> "Point",
       points |-> <<<<PointAt(geom, 296)[1], PointAt(geom, 296)[2] + 7>>>>],
      [geom_type |-> "Point",
       points |-> <<<<PointAt(geom, geom.length)[1] + 4,
                      PointAt(geom, geom.length)[2] + 7>>>>],
      [geom_type |-> "Polygon", points |-> <<>>] }

ConnCandidates(geom) ==
    { [i \in 1..Len(ws) |-> [tag |-> JunctionTag(i), wkt |-> ws[i]]] :
        ws \in SeqUpTo(CandidateWkts(geom), MaxCandidates) }

InitConn ==
    /\ pc = "conn"
    /\ base_pipe \in
           { BasePipe([axis |-> ax, x0 |-> 1000, y0 |-> 2000, length |-> len],
                      <<>>, <<>>, <<>>) :
               ax \in {"x", "y"}, len \in {800, 2000} }
    /\ conn_in \in ConnCandidates(base_pipe.geometry)
    /\ conn_out = <<>>
    /\ junctions_with_positions = <<>>
    /\ point_assets_with_positions = <<>>
    /\ nodes_ordered = <<>>
    /\ out = NoOutput
    /\ network_edge_labels = <<>>
    /\ enc_in = <<>> /\ enc_out = <<>>
    /\ pipes = <<>> /\ all_by_pipe = <<>>
    /\ AggIdle /\ CovIdle /\ RunIdle

GetConnectionsPointsOnPipe ==
    /\ pc = "conn"
    /\ conn_out = <<>>
    /\ conn_out' = <<_get_connections_points_on_pipe(base_pipe, conn_in)>>
    /\ UNCHANGED <<pipe_vars, key_vars, conn_in, batch_vars>>
    /\ UNCHANGED ext_vars

NextConn == GetConnectionsPointsOnPipe

SpecConn == InitConn /\ [][NextConn]_vars

\* C9: when the call returns, its records follow the order of the
\* candidates, one per intersection point; each keeps every attribute of its
\* candidate and adds the point, the integer distance round(100 x projected
\* distance from the pipe start) and the normalised position.
C9_ConnectionRecords ==
    (pc = "conn" /\ conn_out # <<>> /\ conn_out[1].ok) =>
        LET data == conn_out[1].data
            Offset[i \in 0..Len(conn_in)] ==
                IF i = 0 THEN 0
                ELSE Offset[i - 1] + Len(conn_in[i].wkt.points)
        IN  /\ Len(data) = Offset[Len(conn_in)]
            /\ \A i \in 1..Len(conn_in) :
                 \A j \in 1..Len(conn_in[i].wkt.points) :
                   LET rec == data[Offset[i - 1] + j]
                       point == conn_in[i].wkt.points[j]
                       projected ==
                           IF base_pipe.geometry.axis = "x"
                           THEN point[1] - base_pipe.geometry.x0
                           ELSE point[2] - base_pipe.geometry.y0
                       along == IF projected > base_pipe.geometry.length
                                THEN base_pipe.geometry.length ELSE projected
                   IN  /\ \A f \in DOMAIN conn_in[i] : rec[f] = conn_in[i][f]
                       /\ DOMAIN rec = DOMAIN conn_in[i] \cup
                              {"intersection_point_geometry",
                               "distance_from_pipe_start_cm",
                               "normalised_position"}
                       /\ rec.intersection_point_geometry = point
                       /\ rec.distance_from_pipe_start_cm \in Nat
                       /\ rec.distance_from_pipe_start_cm = PyRound(along, 10)
                       /\ rec.normalised_position.num * base_pipe.geometry.length
                              = along * rec.normalised_position.den

\* The call has returned three records for a line meeting the pipe in two
\* points followed by a point asset beside the pipe.
C9_Witness ==
    /\ pc = "conn"
    /\ conn_out # <<>>
    /\ conn_out[1].ok
    /\ Len(conn_in) = 2
    /\ Len(conn_in[1].wkt.points) = 2
    /\ conn_in[2].wkt.geom_type = "Point"
    /\ conn_in[2].wkt.points[1] # PointAt(base_pipe.geometry, 304)
    /\ Len(conn_out[1].data) = 3

(***************************************************************************)
(* Specification SpecBatch: the aggregator's sequential pass              *)
(* (calc_pipe_point_relative_positions) over a batch of two pipes that     *)
(* cross at one interior point.                                            *)
(***************************************************************************)
\* _get_base_pipe_data: the four terminal intersection lists are left empty.
_get_base_pipe_data(qs_object) ==
    [id |-> qs_object.pk,
     tag |-> qs_object.tag,
     asset_name |-> qs_object.asset_name,
     asset_label |-> qs_object.asset_name,
     pipe_length |-> qs_object.geometry.length,
     dma_codes |-> [i \in 1..Len(qs_object.dmas) |-> qs_object.dmas[i].code],
     dma_names |-> [i \in 1..Len(qs_object.dmas) |-> qs_object.dmas[i].name],
     utilities |-> [i \in 1..Len(qs_object.dmas) |-> qs_object.dmas[i].utility],
     geometry |-> qs_object.geometry,
     start_point_geom |-> PointAt(qs_object.geometry, 0),
     end_point_geom |-> PointAt(qs_object.geometry, qs_object.geometry.length),
     line_start_intersection_tags |-> <<>>,
     line_end_intersection_tags |-> <<>>]

\* _combine_all_pipe_junctions: returns an empty list for every pipe.
_combine_all_pipe_junctions(pipe_qs_object) == <<>>

\* _combine_all_point_assets: the asset model instances whose geometry
\* intersects the pipe (the result of the database query).
_combine_all_point_assets(pipe_qs_object) == pipe_qs_object.intersecting_assets

\* map_relative_positions_calc: the result of _set_nodes_and_edges, with
\* ok = FALSE when a step raises.
map_relative_positions_calc(pipe_qs_object) ==
    LET Edges(bp, ordered) ==
            IF ~ordered.ok THEN NoOutput
            ELSE _set_nodes_and_edges(bp, ordered.nodes)
        Nodes(bp, junctions, assets) ==
            IF ~junctions.ok \/ ~assets.ok THEN NoOutput
            ELSE Edges(bp, _set_node_properties(bp, junctions.data,
                                                assets.data))
        Calc(bp, pipe_junctions, point_assets) ==
            Nodes(bp,
                  _get_connections_points_on_pipe(bp, pipe_junctions),
                  _get_connections_points_on_pipe(bp, point_assets))
    IN  Calc(_get_base_pipe_data(pipe_qs_object),
             _combine_all_pipe_junctions(pipe_qs_object),
             _combine_all_point_assets(pipe_qs_object))

\* A pipe object of the relational store.
PipeObject(pk, geom, intersecting_assets) ==
    [pk |-> pk,
     tag |-> 10 * pk,
     asset_name |-> "pipe_main",
     geometry |-> geom,
     dmas |-> <<[code |-> "D1", name |-> "North", utility |-> "thames_water"]>>,
     intersecting_assets |-> intersecting_assets]

\* Two pipes, one along x and one along y, that cross strictly inside both,
\* in either order; a valve may sit on the first pipe of the batch.
CrossingBatches ==
    { IF first = 1 THEN <<PipeObject(1, ga, as), PipeObject(2, gb, <<>>)>>
      ELSE <<PipeObject(2, gb, as), PipeObject(1, ga, <<>>)>> :
        first \in {1, 2},
        as \in { <<>>, <<[model |-> "NetworkOptValve", tag |-> 101]>> },
        ga \in { [axis |-> "x", x0 |-> 1000, y0 |-> 2000, length |-> la] :
                   la \in {800, 2000, 3000} },
        gb \in { [axis |-> "y", x0 |-> xb, y0 |-> 2000 - pb, length |-> lb] :
                   xb \in {1296, 1700}, pb \in {300, 500}, lb \in {800, 2000} } }

InitBatch ==
    /\ pc = "batch"
    /\ pipes \in CrossingBatches
    /\ all_by_pipe = <<>>
    /\ base_pipe = <<>>
    /\ junctions_with_positions = <<>>
    /\ point_assets_with_positions = <<>>
    /\ nodes_ordered = <<>>
    /\ out = NoOutput
    /\ network_edge_labels = <<>>
    /\ enc_in = <<>> /\ enc_out = <<>>
    /\ conn_in = <<>> /\ conn_out = <<>>
    /\ AggIdle /\ CovIdle /\ RunIdle

\* map(): the next pipe of the batch goes through
\* map_relative_positions_calc; an exception ends the pass.
MapRelativePositionsCalc ==
    /\ pc = "batch"
    /\ Len(all_by_pipe) < Len(pipes)
    /\ LET qs_object == pipes[Len(all_by_pipe) + 1]
           r == map_relative_positions_calc(qs_object)
       IN  IF r.ok
           THEN /\ all_by_pipe' = Append(all_by_pipe, r)
                /\ network_edge_labels' =
                       EdgeLabelsAfter(network_edge_labels,
                                       _get_base_pipe_data(qs_object),
                                       r.nodes_by_pipe)
                /\ pc' = "batch"
           ELSE /\ pc' = "error"
                /\ UNCHANGED <<all_by_pipe, network_edge_labels>>
    /\ UNCHANGED <<base_pipe, junctions_with_positions,
                   point_assets_with_positions, nodes_ordered, out>>
    /\ UNCHANGED <<key_vars, conn_vars, pipes>>
    /\ UNCHANGED ext_vars

\* The results of all pipes are in: they become the aggregator's lists.
StoreBatchResults ==
    /\ pc = "batch"
    /\ Len(all_by_pipe) = Len(pipes)
    /\ pc' = "batch_done"
    /\ UNCHANGED <<base_pipe, junctions_with_positions,
                   point_assets_with_positions, nodes_ordered, out,
                   network_edge_labels>>
    /\ UNCHANGED <<key_vars, conn_vars, batch_vars>>
    /\ UNCHANGED ext_vars

NextBatch ==
    \/ MapRelativePositionsCalc
    \/ StoreBatchResults

SpecBatch == InitBatch /\ [][NextBatch]_vars

\* C6: two pipes crossing at one interior point yield one junction node for
\* the crossing point, with the same node_key in both pipes' outputs, and
\* four pipe-segment edges in total.
C6_CrossingPipes ==
    (pc = "batch_done" /\ Len(pipes) = 2) =>
        LET gx == IF pipes[1].geometry.axis = "x" THEN pipes[1].geometry
                  ELSE pipes[2].geometry
            gy == IF pipes[1].geometry.axis = "x" THEN pipes[2].geometry
                  ELSE pipes[1].geometry
            crossing == <<gy.x0, gx.y0>>
            JunctionKeys(k) ==
                { all_by_pipe[k].nodes_by_pipe[i].node_key :
                    i \in { j \in 1..Len(all_by_pipe[k].nodes_by_pipe) :
                        /\ all_by_pipe[k].nodes_by_pipe[j].coords_27700 = crossing
                        /\ InList(PIPE_JUNCTION__LABEL,
                                  all_by_pipe[k].nodes_by_pipe[j].node_labels) } }
        IN  /\ Cardinality(JunctionKeys(1)) = 1
            /\ JunctionKeys(1) = JunctionKeys(2)
            /\ Len(all_by_pipe[1].edges_by_pipe)
                   + Len(all_by_pipe[2].edges_by_pipe) = 4

(***************************************************************************)
(* The graph aggregator and its sinks.  An aggregator of one of the three  *)
(* sink classes computes a batch of pipes, sequentially or through a pool  *)
(* of worker processes, and then materialises the result.                  *)
(***************************************************************************)
MaxPipes == 2
MaxRuns == 2

Range(s) == { s[i] : i \in 1..Len(s) }

\* list(set(...)): the members of a set in an order the language leaves open.
ListsOfSet(S) ==
    { s \in [1..Cardinality(S) -> S] :
        \A i, j \in 1..Cardinality(S) : i # j => s[i] # s[j] }

\* GisToGraph.__init__: the registry of node labels.
InitialNodeLabels ==
    <<NETWORK_NODE__LABEL, PIPE_NODE__LABEL, PIPE_JUNCTION__LABEL,
      PIPE_END__LABEL, POINT_ASSET__LABEL>>

\* The aggregator's per-pipe lists, as assigned from zip(*results).
all_pipe_nodes_by_pipe(results) ==
    [i \in 1..Len(results) |-> results[i].nodes_by_pipe]
all_pipe_edges_by_pipe(results) ==
    [i \in 1..Len(results) |-> results[i].edges_by_pipe]
all_asset_nodes_by_pipe(results) ==
    [i \in 1..Len(results) |-> results[i].asset_nodes_by_pipe]
all_pipe_node_to_asset_node_edges(results) ==
    [i \in 1..Len(results) |-> results[i].pipe_node_to_asset_node_edges]
dma_data(results) ==
    [i \in 1..Len(results) |-> results[i].dma_data]
utility_data(results) ==
    [i \in 1..Len(results) |-> results[i].utility_data]
all_asset_node_labels(results) ==
    [i \in 1..Len(results) |-> results[i].all_asset_node_labels]

\* map(self.map_relative_positions_calc, pipes) consumed by zip: the pipes
\* are computed in order in the aggregator's own process, so each
\* _get_edges_by_pipe call appends to the aggregator's network_edge_labels;
\* the first exception ends the pass.
RECURSIVE CalcLoop(_, _, _)
CalcLoop(batch, k, acc) ==
    IF k > Len(batch) \/ ~acc.ok THEN acc
    ELSE LET Step(r) ==
                 IF ~r.ok THEN [acc EXCEPT !.ok = FALSE]
                 ELSE [ok |-> TRUE,
                       results |-> Append(acc.results, r),
                       network_edge_labels |->
                           EdgeLabelsAfter(acc.network_edge_labels,
                                           _get_base_pipe_data(batch[k]),
                                           r.nodes_by_pipe)]
         IN  CalcLoop(batch, k + 1, Step(map_relative_positions_calc(batch[k])))

\* calc_pipe_point_relative_positions, up to the extension of
\* network_node_labels.
calc_pipe_point_relative_positions(batch, edge_labels) ==
    CalcLoop(batch, 1, [ok |-> TRUE, results |-> <<>>,
                        network_edge_labels |-> edge_labels])

\* The lists network_node_labels.extend(list(set(flatten_concatenation(
\* all_asset_node_labels)))) can append.
NodeLabelExtensions(results) ==
    ListsOfSet(Range(flatten_concatenation(all_asset_node_labels(results))))

\* What a sink reads as its node and edge collections.
Handed(results) ==
    [nodes |-> flatten_concatenation(all_pipe_nodes_by_pipe(results)),
     edges |-> flatten_concatenation(all_pipe_edges_by_pipe(results))]

\* ---- the graph-database sink ----

\* set_node_labels: the registry labels that the node carries.
set_node_labels(node_labels_registry, node) ==
    { l \in Range(node_labels_registry) : InList(l, node.node_labels) }

\* MERGE (n:NetworkNode {node_key}) ON CREATE SET createdAt, labels
\* SET properties: a node with the key is updated, else one is created.
MergeNetworkNode(nodes, node_key, labels, props, now) ==
    IF \E i \in 1..Len(nodes) : nodes[i].node_key = node_key
    THEN [i \in 1..Len(nodes) |->
             IF nodes[i].node_key = node_key
             THEN [nodes[i] EXCEPT !.props = props @@ @]
             ELSE nodes[i]]
    ELSE Append(nodes, [node_key |-> node_key,
                        labels |-> {NETWORK_NODE__LABEL} \cup labels,
                        createdAt |-> now,
                        props |-> props])

\* _batch_create_pipe_nodes
RECURSIVE _batch_create_pipe_nodes(_, _, _, _)
_batch_create_pipe_nodes(nodes, data, registry, now) ==
    IF data = <<>> THEN nodes
    ELSE _batch_create_pipe_nodes(
             MergeNetworkNode(nodes, data[1].node_key,
                              set_node_labels(registry, data[1]),
                              [coords_27700 |-> data[1].coords_27700], now),
             Tail(data), registry, now)

HasNode(nodes, node_key) == \E i \in 1..Len(nodes) : nodes[i].node_key = node_key

\* Faulty variant: CREATE instead of MERGE, a relationship is added on every
\* write.
MergeRelationship_create(dbase, type, from, to, props, directed, now) ==
    IF ~HasNode(dbase.nodes, from) \/ ~HasNode(dbase.nodes, to)
    THEN dbase.rels
    ELSE Append(dbase.rels, [type |-> type, from |-> from, to |-> to,
                             props |-> props, createdAt |-> now])

\* MATCH (n), (m) MERGE (n)-[r:type {props}]-(m) ON CREATE SET createdAt:
\* nothing without both nodes; a relationship of the type with the
\* properties between the two (in either direction unless directed) is
\* kept, else one is created.
MergeRelationship(dbase, type, from, to, props, directed, now) ==
    IF ~HasNode(dbase.nodes, from) \/ ~HasNode(dbase.nodes, to)
    THEN dbase.rels
    ELSE IF \E i \in 1..Len(dbase.rels) :
                /\ dbase.rels[i].type = type
                /\ dbase.rels[i].props = props
                /\ \/ dbase.rels[i].from = from /\ dbase.rels[i].to = to
                   \/ ~directed /\ dbase.rels[i].from = to
                                /\ dbase.rels[i].to = from
         THEN dbase.rels
         ELSE Append(dbase.rels, [type |-> type, from |-> from, to |-> to,
                                  props |-> props, createdAt |-> now])

\* _batch_create_pipe_node_relations: the edges grouped by asset_label, one
\* query per label in order of first appearance.
RECURSIVE PipeRelationLoop(_, _, _)
PipeRelationLoop(dbase, edges, now) ==
    IF edges = <<>> THEN dbase
    ELSE PipeRelationLoop(
             [dbase EXCEPT !.rels =
                 MergeRelationship(dbase, edges[1].asset_label,
                     edges[1].from_node_key, edges[1].to_node_key,
                     [tag |-> edges[1].tag,
                      segment_wkt |-> edges[1].segment_wkt,
                      segment_length |-> edges[1].segment_length],
                     FALSE, now)],
             Tail(edges), now)

GroupByLabel(edges) ==
    LET labels == Distinct([i \in 1..Len(edges) |-> edges[i].asset_label])
    IN  flatten_concatenation(
            [k \in 1..Len(labels) |->
                SelectSeq(edges, LAMBDA e : e.asset_label = labels[k])])

_batch_create_pipe_node_relations(dbase, results, now) ==
    PipeRelationLoop(dbase,
        GroupByLabel(flatten_concatenation(all_pipe_edges_by_pipe(results))),
        now)

\* _batch_create_asset_nodes
RECURSIVE AssetNodeLoop(_, _, _, _)
AssetNodeLoop(nodes, data, registry, now) ==
    IF data = <<>> THEN nodes
    ELSE AssetNodeLoop(
             MergeNetworkNode(nodes, data[1].node_key,
                              set_node_labels(registry, data[1]),
                              [coords_27700 |-> data[1].coords_27700,
                               tag |-> data[1].tag], now),
             Tail(data), registry, now)

_batch_create_asset_nodes(nodes, results, registry, now) ==
    AssetNodeLoop(nodes,
        flatten_concatenation(
            flatten_concatenation(all_asset_nodes_by_pipe(results))),
        registry, now)

\* _batch_create_pipe_node_to_asset_node_relations
RECURSIVE HasAssetLoop(_, _, _)
HasAssetLoop(dbase, edges, now) ==
    IF edges = <<>> THEN dbase
    ELSE HasAssetLoop(
             [dbase EXCEPT !.rels =
                 MergeRelationship(dbase, "HAS_ASSET",
                     edges[1].from_node_key, edges[1].to_node_key,
                     [edge_key |-> edges[1].edge_key], TRUE, now)],
             Tail(edges), now)

_batch_create_pipe_node_to_asset_node_relations(dbase, results, now) ==
    HasAssetLoop(dbase,
        flatten_concatenation(all_pipe_node_to_asset_node_edges(results)),
        now)

\* _batch_create_dma_nodes: MERGE (d:DMA {code}) ON CREATE SET d.name
RECURSIVE _batch_create_dma_nodes(_, _)
_batch_create_dma_nodes(dmas, data) ==
    IF data = <<>> THEN dmas
    ELSE _batch_create_dma_nodes(
             IF \E i \in 1..Len(dmas) : dmas[i].code = data[1].code
             THEN dmas
             ELSE Append(dmas, [code |-> data[1].code, name |-> data[1].name]),
             Tail(data))

\* _batch_create_dma_relationships: MERGE (n)-[:IN_DMA]->(d)
RECURSIVE _batch_create_dma_relationships(_, _)
_batch_create_dma_relationships(dbase, data) ==
    IF data = <<>> THEN dbase
    ELSE LET rel == [from |-> data[1].to_node_key, code |-> data[1].code]
         IN  _batch_create_dma_relationships(
                 IF /\ HasNode(dbase.nodes, rel.from)
                    /\ \E i \in 1..Len(dbase.dmas) : dbase.dmas[i].code = rel.code
                    /\ ~InList(rel, dbase.in_dma)
                 THEN [dbase EXCEPT !.in_dma = Append(@, rel)]
                 ELSE dbase,
                 Tail(data))

\* _batch_create_utility_nodes: MERGE (u:Utility {name})
RECURSIVE _batch_create_utility_nodes(_, _)
_batch_create_utility_nodes(utilities, data) ==
    IF data = <<>> THEN utilities
    ELSE _batch_create_utility_nodes(
             IF InList([name |-> data[1].name], utilities) THEN utilities
             ELSE Append(utilities, [name |-> data[1].name]),
             Tail(data))

\* _batch_create_utility_relationships: MERGE (n)-[:IN_UTILITY]->(u)
RECURSIVE _batch_create_utility_relationships(_, _)
_batch_create_utility_relationships(dbase, data) ==
    IF data = <<>> THEN dbase
    ELSE LET rel == [from |-> data[1].to_node_key, name |-> data[1].name]
         IN  _batch_create_utility_relationships(
                 IF /\ HasNode(dbase.nodes, rel.from)
                    /\ InList([name |-> rel.name], dbase.utilities)
                    /\ ~InList(rel, dbase.in_utility)
                 THEN [dbase EXCEPT !.in_utility = Append(@, rel)]
                 ELSE dbase,
                 Tail(data))

\* _map_pipe_connected_asset_relations: the eight writes in order.
_map_pipe_connected_asset_relations(dbase, results, registry, now) ==
    LET S1(d) == [d EXCEPT !.nodes =
                     _batch_create_pipe_nodes(d.nodes,
                         flatten_concatenation(all_pipe_nodes_by_pipe(results)),
                         registry, now)]
        S2(d) == _batch_create_pipe_node_relations(d, results, now)
        S3(d) == [d EXCEPT !.nodes =
                     _batch_create_asset_nodes(d.nodes, results, registry, now)]
        S4(d) == _batch_create_pipe_node_to_asset_node_relations(d, results, now)
        S5(d) == [d EXCEPT !.dmas =
                     _batch_create_dma_nodes(d.dmas,
                         flatten_concatenation(dma_data(results)))]
        S6(d) == _batch_create_dma_relationships(d,
                     flatten_concatenation(dma_data(results)))
        S7(d) == [d EXCEPT !.utilities =
                     _batch_create_utility_nodes(d.utilities,
                         flatten_concatenation(utility_data(results)))]
        S8(d) == _batch_create_utility_relationships(d,
                     flatten_concatenation(utility_data(results)))
    IN  S8(S7(S6(S5(S4(S3(S2(S1(dbase))))))))

\* create_neo4j_graph: the lists are written as they are (the call of
\* _get_unique_nodes_and_edges is commented out).
create_neo4j_graph(dbase, results, registry, now) ==
    _map_pipe_connected_asset_relations(dbase, results, registry, now)

\* ---- the networkx sink ----

\* create_nx_graph: a fresh Graph, the nodes added once per node_key, the
\* edges added by their end keys, and the isolated nodes removed (the
\* component report and the plots that follow read the graph only).
create_nx_graph(results) ==
    LET edges == flatten_concatenation(all_pipe_edges_by_pipe(results))
        nodes == flatten_concatenation(all_pipe_nodes_by_pipe(results))
        edge_set == { {edges[i].from_node_key, edges[i].to_node_key} :
                        i \in 1..Len(edges) }
        node_set == { nodes[i].node_key : i \in 1..Len(nodes) }
                        \cup UNION edge_set
    IN  [nodes |-> { n \in node_set : \E e \in edge_set : n \in e },
         edges |-> edge_set]

\* ---- the networkit sink ----

\* self.node_index[key] = len(self.node_index) + 1 unless the key is known:
\* the keys in order of arrival, the id of a key is its place in the list.
NodeIndexAdd(node_index, key) ==
    IF InList(key, node_index) THEN node_index ELSE Append(node_index, key)

\* One iteration of the loop of create_nk_graph: pipe[0] is the only edge of
\* the pipe that is read, and raises IndexError when the pipe has no edge.
NkStep(acc, pipe) ==
    IF ~acc.ok THEN acc
    ELSE IF pipe = <<>> THEN [acc EXCEPT !.ok = FALSE]
    ELSE LET idx == NodeIndexAdd(NodeIndexAdd(acc.node_index,
                                              pipe[1].from_node_key),
                                 pipe[1].to_node_key)
         IN  [ok |-> TRUE,
              node_index |-> idx,
              edges |-> Append(acc.edges,
                               <<ListIndex(idx, pipe[1].from_node_key) + 1,
                                 ListIndex(idx, pipe[1].to_node_key) + 1>>)]

RECURSIVE NkLoop(_, _)
NkLoop(acc, edges_by_pipe) ==
    IF edges_by_pipe = <<>> THEN acc
    ELSE NkLoop(NkStep(acc, edges_by_pipe[1]), Tail(edges_by_pipe))

\* create_nk_graph
create_nk_graph(graph, results) ==
    NkLoop([ok |-> TRUE, node_index |-> graph.node_index,
            edges |-> graph.edges],
           all_pipe_edges_by_pipe(results))

\* ---- the batches ----

AggPipeA == PipeObject(1, [axis |-> "x", x0 |-> 1500, y0 |-> 2000, length |-> 300], <<>>)
\* starts where AggPipeA ends
AggPipeB == PipeObject(2, [axis |-> "y", x0 |-> 1800, y0 |-> 2000, length |-> 2000], <<>>)
\* shorter than the tolerance of the end points
AggPipeC == PipeObject(3, [axis |-> "x", x0 |-> 5000, y0 |-> 5000, length |-> 3], <<>>)
\* a tenth of AggPipeA
AggPipeD == PipeObject(4, [axis |-> "x", x0 |-> 150, y0 |-> 2000, length |-> 30], <<>>)
\* a hydrant lies on the pipe
AggPipeE ==
    PipeObject(5, [axis |-> "x", x0 |-> 3000, y0 |-> 4000, length |-> 800],
               <<[model |-> "Hydrant", tag |-> 101]>>)

AggPipes == {AggPipeA, AggPipeB, AggPipeC, AggPipeD, AggPipeE}

\* A batch is a slice of the pipe table: every pipe at most once.
AggBatches ==
    { b \in UNION { [1..k -> AggPipes] : k \in 1..MaxPipes } :
        \A i, j \in 1..Len(b) : b[i] = b[j] => i = j }

NothingHanded == [nodes |-> <<>>, edges |-> <<>>]

InitAgg ==
    /\ pc = "agg_start"
    /\ pipes \in AggBatches
    /\ sink \in {"neo4j", "nx", "nk"}
    /\ mode \in {"sequential", "parallel"}
    /\ pending = IF mode = "parallel" THEN 1..Len(pipes) ELSE {}
    /\ all_by_pipe = <<>>
    /\ network_node_labels = InitialNodeLabels
    /\ network_edge_labels = <<>>
    /\ db = EmptyDb /\ G = EmptyNx /\ nk = EmptyNk
    /\ runs = 0
    /\ handed = NothingHanded
    /\ base_pipe = <<>>
    /\ junctions_with_positions = <<>>
    /\ point_assets_with_positions = <<>>
    /\ nodes_ordered = <<>>
    /\ out = NoOutput
    /\ enc_in = <<>> /\ enc_out = <<>>
    /\ conn_in = <<>> /\ conn_out = <<>>
    /\ CovIdle /\ RunIdle

\* calc_pipe_point_relative_positions
CalcSequential ==
    /\ pc = "agg_start" /\ mode = "sequential"
    /\ LET Store(r) ==
               IF r.ok
               THEN /\ pc' = "batch_done"
                    /\ all_by_pipe' = r.results
                    /\ \E order \in NodeLabelExtensions(r.results) :
                           network_node_labels' = network_node_labels \o order
                    /\ network_edge_labels' = r.network_edge_labels
               ELSE /\ pc' = "error"
                    /\ network_edge_labels' = r.network_edge_labels
                    /\ UNCHANGED <<all_by_pipe, network_node_labels>>
       IN  Store(calc_pipe_point_relative_positions(pipes, network_edge_labels))
    /\ UNCHANGED <<base_pipe, junctions_with_positions,
                   point_assets_with_positions, nodes_ordered, out>>
    /\ UNCHANGED <<key_vars, conn_vars, pipes>>
    /\ UNCHANGED <<sink, mode, pending, db, G, nk, runs, handed>>
    /\ UNCHANGED <<cov_vars, conv_vars, run_vars>>

\* calc_pipe_point_relative_positions_parallel: p.imap_unordered yields the
\* result of some pipe whose worker has finished.  The worker ran
\* map_relative_positions_calc on its own copy of the aggregator, so what
\* _get_edges_by_pipe appended to network_edge_labels stays in the worker.
\* An exception of the worker is raised again in the aggregator.
WorkerReturns ==
    /\ pc = "agg_start" /\ mode = "parallel"
    /\ \E i \in pending :
         LET Take(r) ==
                 IF r.ok
                 THEN /\ all_by_pipe' = Append(all_by_pipe, r)
                      /\ pending' = pending \ {i}
                      /\ pc' = "agg_start"
                 ELSE /\ pc' = "error"
                      /\ UNCHANGED <<all_by_pipe, pending>>
         IN  Take(map_relative_positions_calc(pipes[i]))
    /\ UNCHANGED <<base_pipe, junctions_with_positions,
                   point_assets_with_positions, nodes_ordered, out,
                   network_edge_labels>>
    /\ UNCHANGED <<key_vars, conn_vars, pipes>>
    /\ UNCHANGED <<sink, mode, network_node_labels, db, G, nk, runs, handed>>
    /\ UNCHANGED <<cov_vars, conv_vars, run_vars>>

\* calc_pipe_point_relative_positions_parallel: all results are in, the
\* lists are assigned and network_node_labels is extended.
CollectParallel ==
    /\ pc = "agg_start" /\ mode = "parallel"
    /\ pending = {}
    /\ pc' = "batch_done"
    /\ \E order \in NodeLabelExtensions(all_by_pipe) :
           network_node_labels' = network_node_labels \o order
    /\ UNCHANGED <<pipe_vars_but_pc, key_vars, conn_vars, batch_vars>>
    /\ UNCHANGED <<sink, mode, pending, db, G, nk, runs, handed>>
    /\ UNCHANGED <<cov_vars, conv_vars, run_vars>>

\* create_neo4j_graph, with reset_pipe_asset_data
CreateNeo4jGraph ==
    /\ pc = "batch_done" /\ sink = "neo4j"
    /\ db' = create_neo4j_graph(db, all_by_pipe, network_node_labels, runs + 1)
    /\ handed' = Handed(all_by_pipe)
    /\ all_by_pipe' = <<>>
    /\ runs' = runs + 1
    /\ pc' = "written"
    /\ UNCHANGED <<pipe_vars_but_pc, key_vars, conn_vars, pipes>>
    /\ UNCHANGED <<sink, mode, pending, network_node_labels, G, nk>>
    /\ UNCHANGED <<cov_vars, conv_vars, run_vars>>

\* create_nx_graph
CreateNxGraph ==
    /\ pc = "batch_done" /\ sink = "nx"
    /\ G' = create_nx_graph(all_by_pipe)
    /\ handed' = Handed(all_by_pipe)
    /\ runs' = runs + 1
    /\ pc' = "written"
    /\ UNCHANGED <<pipe_vars_but_pc, key_vars, conn_vars, batch_vars>>
    /\ UNCHANGED <<sink, mode, pending, network_node_labels, db, nk>>
    /\ UNCHANGED <<cov_vars, conv_vars, run_vars>>

\* create_nk_graph
CreateNkGraph ==
    /\ pc = "batch_done" /\ sink = "nk"
    /\ LET Store(r) ==
               /\ nk' = [node_index |-> r.node_index, edges |-> r.edges]
               /\ pc' = IF r.ok THEN "written" ELSE "sink_error"
       IN  Store(create_nk_graph(nk, all_by_pipe))
    /\ handed' = Handed(all_by_pipe)
    /\ runs' = runs + 1
    /\ UNCHANGED <<pipe_vars_but_pc, key_vars, conn_vars, batch_vars>>
    /\ UNCHANGED <<sink, mode, pending, network_node_labels, db, G>>
    /\ UNCHANGED <<cov_vars, conv_vars, run_vars>>

\* The same batch is computed and written again, by the same aggregator or
\* by a new one after a restart of the program; the database persists, the
\* in-memory graphs and the registries last as long as the aggregator.
RunAgain ==
    /\ pc = "written" /\ runs < MaxRuns
    /\ pc' = "agg_start"
    /\ all_by_pipe' = <<>>
    /\ pending' = IF mode = "parallel" THEN 1..Len(pipes) ELSE {}
    /\ \E restart \in BOOLEAN :
         IF restart
         THEN /\ network_node_labels' = InitialNodeLabels
              /\ network_edge_labels' = <<>>
              /\ G' = EmptyNx /\ nk' = EmptyNk
         ELSE UNCHANGED <<network_node_labels, network_edge_labels, G, nk>>
    /\ UNCHANGED <<base_pipe, junctions_with_positions,
                   point_assets_with_positions, nodes_ordered, out>>
    /\ UNCHANGED <<key_vars, conn_vars, pipes>>
    /\ UNCHANGED <<sink, mode, db, runs, handed>>
    /\ UNCHANGED <<cov_vars, conv_vars, run_vars>>

NextAgg ==
    \/ CalcSequential
    \/ WorkerReturns
    \/ CollectParallel
    \/ CreateNeo4jGraph
    \/ CreateNxGraph
    \/ CreateNkGraph
    \/ RunAgain

SpecAgg == InitAgg /\ [][NextAgg]_vars

\* C11: the node collection handed to the sink holds at most one node per
\* node_key and the edge collection at most one edge per edge_key.
C11_HandedUnique ==
    (pc \in {"written", "sink_error"}) =>
        /\ \A i, j \in 1..Len(handed.nodes) :
               handed.nodes[i].node_key = handed.nodes[j].node_key => i = j
        /\ \A i, j \in 1..Len(handed.edges) :
               handed.edges[i].edge_key = handed.edges[j].edge_key => i = j

\* The number of entries of s equal to x.
Count(x, s) == Cardinality({ i \in 1..Len(s) : s[i] = x })

\* The same entries with the same multiplicities.
SameUpToOrder(a, b) ==
    \A x \in Range(a) \cup Range(b) : Count(x, a) = Count(x, b)

\* C12: after the parallel calculation of a batch a new aggregator holds the
\* same per-pipe collections (up to order) and the same network_node_labels
\* and network_edge_labels as a new aggregator holds after the sequential
\* calculation of the batch.
C12_ParallelAsSequential ==
    (mode = "parallel" /\ pc = "batch_done" /\ runs = 0) =>
        LET Same(seq) ==
                /\ seq.ok
                /\ SameUpToOrder(all_by_pipe, seq.results)
                /\ \E order \in NodeLabelExtensions(seq.results) :
                       SameUpToOrder(network_node_labels,
                                     InitialNodeLabels \o order)
                /\ network_edge_labels = seq.network_edge_labels
        IN  Same(calc_pipe_point_relative_positions(pipes, <<>>))

\* The entities of the database: the network nodes by key and labels, the
\* relationships between them, the DMA and Utility nodes and the
\* memberships.
Entities(dbase) ==
    [nodes |-> [i \in 1..Len(dbase.nodes) |->
                   [node_key |-> dbase.nodes[i].node_key,
                    labels |-> dbase.nodes[i].labels]],
     rels |-> dbase.rels,
     dmas |-> dbase.dmas,
     in_dma |-> dbase.in_dma,
     utilities |-> dbase.utilities,
     in_utility |-> dbase.in_utility]

\* C13: writing a batch that the database already holds (calc followed by
\* create_neo4j_graph, a second time) leaves the network nodes, the pipe and
\* HAS_ASSET relationships, the DMA and Utility nodes and the membership
\* relationships of the database as they were.
C13_WriteIdempotent ==
    [][(sink = "neo4j" /\ pc = "batch_done" /\ runs >= 1 /\ pc' = "written")
          => Entities(db') = Entities(db)]_vars

\* A batch with a pipe segment has been written twice.
C13_Witness ==
    /\ sink = "neo4j" /\ pc = "written" /\ runs = 2
    /\ Len(db.rels) > 0 /\ Len(db.in_dma) > 0 /\ Len(db.in_utility) > 0

\* The pipe connections a sink holds, as pairs of node keys.
Neo4jConnections(dbase) ==
    { {dbase.rels[i].from, dbase.rels[i].to} :
        i \in { j \in 1..Len(dbase.rels) : dbase.rels[j].type # "HAS_ASSET" } }
NxConnections(graph) == graph.edges
NkConnections(graph) ==
    { {graph.node_index[graph.edges[i][1]], graph.node_index[graph.edges[i][2]]} :
        i \in 1..Len(graph.edges) }

SinkConnections ==
    CASE sink = "neo4j" -> Neo4jConnections(db)
      [] sink = "nx" -> NxConnections(G)
      [] sink = "nk" -> NkConnections(nk)
      [] OTHER -> {}

\* C14: once a sink has run on the aggregator's output, it holds a
\* connection between from_node_key and to_node_key of every pipe-segment
\* edge of the output and no other pipe connection, whichever of the three
\* sinks it is.
C14_SinksAgree ==
    (pc \in {"written", "sink_error"}) =>
        SinkConnections =
            { {handed.edges[i].from_node_key, handed.edges[i].to_node_key} :
                i \in 1..Len(handed.edges) }

(***************************************************************************)
(* Acoustic logger coverage.  Distances are exact fractions [n, d] with    *)
(* d > 0 in lowest terms, standing for the floating point numbers of the   *)
(* controller.                                                             *)
(***************************************************************************)
GCD[a \in Nat, b \in Nat] == IF b = 0 THEN a ELSE GCD[b, a % b]

Abs(a) == IF a < 0 THEN -a ELSE a

QNorm(n, d) ==
    CHOOSE q \in { [n |-> p[1] \div GCD[Abs(p[1]), p[2]],
                    d |-> p[2] \div GCD[Abs(p[1]), p[2]]] :
                      p \in {<<n, d>>} } : TRUE

QInt(k) == [n |-> k, d |-> 1]
QMul(a, b) == QNorm(a.n * b.n, a.d * b.d)
\* a / b for b > 0
QDiv(a, b) == QNorm(a.n * b.d, a.d * b.n)
QSub(a, b) == QNorm(a.n * b.d - b.n * a.d, a.d * b.d)
QAdd(a, b) == QNorm(a.n * b.d + b.n * a.d, a.d * b.d)
QLt(a, b) == a.n * b.d < b.n * a.d
QLe(a, b) == a.n * b.d <= b.n * a.d
QPos(a) == a.n > 0

\* AcousticLoggerCoverage.__init__: self.detection_dist
detection_dist ==
    [m \in {"Steel", "Ductile Iron", "Unknown", "Cast Iron", "Concrete",
            "Stainless Steel", "Concrete Steel", "Other", "Copper",
            "Galvanized Iron", "Aluminium",
            "Polyethylene Aluminium Composite", "Lead",
            "Steel High Pressure Polyethylene", "None"} |-> 150]
    @@
    [m \in {"Medium Density Polyethylene", "High Performance Polyethylene",
            "Polyolefin", "Glass Reinforced Plastic",
            "Unplasticized Polyvinyl Chloride", "Asbestos Cement",
            "Mild Steel Epoxy Coated", "Low Density Polyethylene",
            "Bituminous", "Polyvinyl Chloride", "Brick", "Fiberglass",
            "Plastic", "Glass", "High Density Polyethylene", "Polyethylene",
            "Polyurethane", "Vinyl Chloride", "Polypropylene", "Marble"}
        |-> 70]

\* self.detection_dist.get(material): None for a material not in the table
HasDetectionDist(material) == material \in DOMAIN detection_dist

\* Faulty variant: the two materials are taken the other way round.
convert_remaining_distance_swapped(remaining_distance, current_material, next_material) ==
    IF ~HasDetectionDist(current_material) \/ ~HasDetectionDist(next_material)
    THEN [ok |-> FALSE, value |-> QInt(0)]
    ELSE [ok |-> TRUE,
          value |-> QMul(QDiv(remaining_distance,
                              QInt(detection_dist[next_material])),
                         QInt(detection_dist[current_material]))]

\* convert_remaining_distance: (remaining_distance / current) * next; the
\* arithmetic on None raises TypeError (ok = FALSE).
convert_remaining_distance(remaining_distance, current_material, next_material) ==
    IF ~HasDetectionDist(current_material) \/ ~HasDetectionDist(next_material)
    THEN [ok |-> FALSE, value |-> QInt(0)]
    ELSE [ok |-> TRUE,
          value |-> QMul(QDiv(remaining_distance,
                              QInt(detection_dist[current_material])),
                         QInt(detection_dist[next_material]))]

\* ---- convert_remaining_distance on its own ----

ConvDistances == {QInt(0), QInt(1), QInt(100), QInt(150), QNorm(140, 3)}
ConvMaterials == DOMAIN detection_dist \cup {"Clay"}

InitConv ==
    /\ conv_in \in [remaining_distance : ConvDistances,
                    current_material : ConvMaterials,
                    next_material : ConvMaterials]
    /\ conv_out = <<>>
    /\ pc = "convert"
    /\ base_pipe = <<>>
    /\ junctions_with_positions = <<>>
    /\ point_assets_with_positions = <<>>
    /\ nodes_ordered = <<>>
    /\ out = NoOutput
    /\ network_edge_labels = <<>>
    /\ enc_in = <<>> /\ enc_out = <<>>
    /\ conn_in = <<>> /\ conn_out = <<>>
    /\ pipes = <<>> /\ all_by_pipe = <<>>
    /\ AggIdle /\ RunIdle
    /\ cov_graph = <<>> /\ cpc = "none" /\ logger_i = 0
    /\ connected_edges = <<>> /\ ce_i = 0
    /\ processed_edges = {} /\ processed_nodes = {}
    /\ stack = <<>> /\ coverage = <<>> /\ csv = <<>> /\ fraction = <<>>
    /\ updates = <<>>

ConvertRemainingDistance ==
    /\ pc = "convert" /\ conv_out = <<>>
    /\ conv_out' = <<convert_remaining_distance(conv_in.remaining_distance,
                                                conv_in.current_material,
                                                conv_in.next_material)>>
    /\ UNCHANGED <<pipe_vars, key_vars, conn_vars, batch_vars, agg_vars,
                   cov_vars, conv_in, run_vars>>

NextConv == ConvertRemainingDistance

SpecConv == InitConv /\ [][NextConv]_vars

\* C19: for materials of the detection table convert_remaining_distance(R,
\* old, new) is R * D[new] / D[old]: R itself when the two detection
\* distances are equal, and 100 * 70 / 150 for 100 from Steel to Plastic.
C19_ConvertFormula ==
    (/\ conv_out # <<>>
     /\ HasDetectionDist(conv_in.current_material)
     /\ HasDetectionDist(conv_in.next_material)) =>
        LET R == conv_in.remaining_distance
            Dold == detection_dist[conv_in.current_material]
            Dnew == detection_dist[conv_in.next_material]
        IN  /\ conv_out[1].ok
            /\ conv_out[1].value = QDiv(QMul(R, QInt(Dnew)), QInt(Dold))
            /\ Dold = Dnew => conv_out[1].value = R
            /\ (R = QInt(100) /\ conv_in.current_material = "Steel"
                  /\ conv_in.next_material = "Plastic")
                 => conv_out[1].value = QNorm(100 * 70, 150)

\* 100 has been converted from Steel to Plastic.
C19_Witness ==
    /\ conv_out # <<>>
    /\ conv_in.remaining_distance = QInt(100)
    /\ conv_in.current_material = "Steel"
    /\ conv_in.next_material = "Plastic"
    /\ conv_out[1].ok
    /\ conv_out[1].value = QNorm(140, 3)

\* ---- the traversal ----

MaxLoggers == 2

\* The PipeMain relationships at a node.
EdgesAt(g, node_key) ==
    { e \in 1..Len(g.edges) :
        g.edges[e].start = node_key \/ g.edges[e].end = node_key }

\* get_next_edges: the relationships at the node whose id is not in
\* processed_edges (the second condition of the query compares node keys
\* with edge ids and excludes nothing); the rows come in any order.
get_next_edges(g, node_key, processed) ==
    ListsOfSet({ e \in EdgesAt(g, node_key) : e \notin processed })

\* check_for_pipe_end
check_for_pipe_end(g, node_key) == node_key \in g.pipe_end

\* end_node_key if start_node_key in processed_nodes else start_node_key
FarNode(edge, processed) ==
    IF edge.start \in processed THEN edge.end ELSE edge.start

\* update_edge_attributes, the MATCH: every PipeMain relationship between
\* the two nodes, in either direction.
MatchedEdges(g, start_node_key, end_node_key) ==
    { e \in 1..Len(g.edges) :
        \/ g.edges[e].start = start_node_key /\ g.edges[e].end = end_node_key
        \/ g.edges[e].start = end_node_key /\ g.edges[e].end = start_node_key }

\* update_edge_attributes, the SET: the logger and the length are appended
\* to coveredbyLogger and coverageLen of every matched relationship.
CoverageAfter(cov, matched, logger_key, coverage_len) ==
    [e \in 1..Len(cov) |->
        IF e \in matched
        THEN Append(cov[e], [logger |-> logger_key, len |-> coverage_len])
        ELSE cov[e]]

\* update_edge_attributes, the rows written to the file, one per result row.
CsvRows(g, order, start_node_key, end_node_key, logger_key, coverage_len) ==
    [k \in 1..Len(order) |->
        [logger_node_key |-> logger_key,
         pipe_id |-> order[k],
         pipe_material |-> g.edges[order[k]].material,
         pipe_length |-> QInt(g.edges[order[k]].segment_length),
         coverage_length |-> coverage_len,
         start_node_key |-> start_node_key,
         end_node_key |-> end_node_key]]

\* A frame of process_connected_edges at its first statement.
NewFrame(node_key, remaining_distance, pipe_material) ==
    [node_key |-> node_key,
     remaining_distance |-> remaining_distance,
     pipe_material |-> pipe_material,
     has_edge_distance |-> FALSE,         \* "edge_distance" in locals()
     edge_distance |-> QInt(0),
     per_edge_distance |-> QInt(0),
     next_edges |-> <<>>,
     i |-> 0,
     at |-> "entry",
     broke_on_partial |-> FALSE,   \* the for loop was left at line 233
     from_partial |-> FALSE,       \* next_edges was fetched after that
     fetched_at |-> node_key]      \* the node next_edges was fetched at

\* Faulty variant: when the for loop runs out the while loop goes round
\* again.
ForElse_again(f) == [f EXCEPT !.at = "while"]

\* for ... else: break -- the for loop ran out, the while loop is left.
ForElse(f) == [f EXCEPT !.at = "return"]

\* One iteration of the for loop of process_connected_edges on frame f.
ForStep(g, f, processed) ==
    LET e == f.next_edges[f.i]
        edge == g.edges[e]
        pipe_length == QInt(edge.segment_length)
        ed0 == IF ~f.has_edge_distance \/ f.edge_distance = QInt(0)
               THEN f.per_edge_distance ELSE f.edge_distance
        far == FarNode(edge, processed)
        Partial(ed) ==
            [ok |-> TRUE, partial |-> TRUE, covered |-> ed, call |-> FALSE,
             frame |-> [f EXCEPT
                 !.remaining_distance = QSub(@, ed),
                 !.pipe_material = edge.material,
                 !.has_edge_distance = TRUE,
                 !.edge_distance = QInt(0),
                 !.node_key = far,
                 !.at = IF check_for_pipe_end(g, far) THEN "while" ELSE "for",
                 !.i = IF check_for_pipe_end(g, far) THEN @ ELSE @ + 1,
                 !.broke_on_partial = check_for_pipe_end(g, far)]]
        Full(ed, rem) ==
            IF QPos(rem) /\ check_for_pipe_end(g, far)
            THEN [ok |-> TRUE, partial |-> FALSE, covered |-> pipe_length,
                  call |-> FALSE,
                  frame |-> [f EXCEPT
                      !.remaining_distance = rem,
                      !.pipe_material = edge.material,
                      !.has_edge_distance = TRUE,
                      !.edge_distance = QInt(0),
                      !.node_key = far,
                      !.i = @ + 1]]
            ELSE IF QPos(ed) /\ QPos(rem)
            THEN [ok |-> TRUE, partial |-> FALSE, covered |-> pipe_length,
                  call |-> TRUE,
                  frame |-> [f EXCEPT
                      !.remaining_distance = rem,
                      !.pipe_material = edge.material,
                      !.has_edge_distance = TRUE,
                      !.edge_distance = ed,
                      !.node_key = far,
                      !.i = @ + 1]]
            ELSE [ok |-> TRUE, partial |-> FALSE, covered |-> pipe_length,
                  call |-> FALSE,
                  frame |-> [f EXCEPT
                      !.remaining_distance = rem,
                      !.pipe_material = edge.material,
                      !.has_edge_distance = TRUE,
                      !.edge_distance = ed,
                      !.node_key = IF QPos(rem) THEN far ELSE @,
                      !.at = "while"]]
        Conv(c) ==
            IF ~c.ok
            THEN [ok |-> FALSE, partial |-> FALSE, covered |-> QInt(0),
                  call |-> FALSE, frame |-> f]
            ELSE IF QLt(c.value, pipe_length) THEN Partial(c.value)
            ELSE Full(QSub(c.value, pipe_length),
                      QSub(f.remaining_distance, pipe_length))
    IN  Conv(convert_remaining_distance(ed0, f.pipe_material, edge.material))

\* One pass of the loop over df.pipe_id.unique() of
\* update_edge_coverage_fraction.
FractionStep(g, rows_all, frac, pipe) ==
    LET dftmp == Distinct(SelectSeq(rows_all, LAMBDA r : r.pipe_id = pipe))
        pipe_len == dftmp[1].pipe_length
        Sum[k \in 0..Len(dftmp)] ==
            IF k = 0 THEN QInt(0) ELSE QAdd(Sum[k - 1], dftmp[k].coverage_length)
        pipe_cov == Sum[Len(dftmp)]
        total_cov == IF Len(dftmp) > 1
                     THEN (IF QLt(pipe_cov, pipe_len) THEN pipe_cov ELSE pipe_len)
                     ELSE dftmp[1].coverage_length
        cov_fraction == IF QPos(pipe_len)
                        THEN QMul(QDiv(total_cov, pipe_len), QInt(100))
                        ELSE QInt(100)
        matched == MatchedEdges(g, dftmp[1].start_node_key,
                                dftmp[1].end_node_key)
    IN  [e \in 1..Len(frac) |->
            IF e \in matched THEN <<cov_fraction>> ELSE frac[e]]

RECURSIVE FractionLoop(_, _, _, _)
FractionLoop(g, rows_all, frac, pipe_ids) ==
    IF pipe_ids = <<>> THEN frac
    ELSE CHOOSE r \in
             { FractionLoop(g, rows_all, a[1], a[2]) :
                 a \in {<<FractionStep(g, rows_all, frac, pipe_ids[1]),
                          Tail(pipe_ids)>>} } : TRUE

\* update_edge_coverage_fraction
update_edge_coverage_fraction(g, rows_all, frac) ==
    FractionLoop(g, rows_all, frac,
                 Distinct([k \in 1..Len(rows_all) |-> rows_all[k].pipe_id]))

\* ---- the graphs ----

CovEdge(start, end, material, segment_length) ==
    [start |-> start, end |-> end, material |-> material,
     segment_length |-> segment_length]

CovLengths == {0, 10, 200}
CovMaterials == {"Steel", "Plastic"}

\* L - A - B - C
ChainGraphs ==
    { [edges |-> <<CovEdge("L", "A", m1, l1),
                   IF fwd THEN CovEdge("A", "B", m2, l2)
                   ELSE CovEdge("B", "A", m2, l2),
                   CovEdge("B", "C", m3, l3)>>,
       pipe_end |-> pe] :
        l1 \in CovLengths, l2 \in CovLengths, l3 \in CovLengths,
        m1 \in CovMaterials, m2 \in CovMaterials, m3 \in CovMaterials,
        fwd \in BOOLEAN, pe \in SUBSET {"B", "C"} }

\* L - A - B - L
CycleGraphs ==
    { [edges |-> <<CovEdge("L", "A", "Steel", l1),
                   CovEdge("A", "B", m2, l2),
                   IF fwd THEN CovEdge("B", "L", "Steel", l3)
                   ELSE CovEdge("L", "B", "Steel", l3)>>,
       pipe_end |-> pe] :
        l1 \in CovLengths, l2 \in CovLengths, l3 \in CovLengths,
        m2 \in CovMaterials, fwd \in BOOLEAN, pe \in SUBSET {"B"} }

\* L - A = B: two pipes between A and B
ParallelGraphs ==
    { [edges |-> <<CovEdge("L", "A", "Steel", 10),
                   CovEdge("A", "B", "Steel", l2),
                   CovEdge("A", "B", m3, l3)>>,
       pipe_end |-> pe] :
        l2 \in CovLengths, l3 \in CovLengths,
        m3 \in {"Steel", "Clay"}, pe \in SUBSET {"B"} }

\* L - A - B and L = A with a material that is not in the table
UnknownMaterialGraphs ==
    { [edges |-> <<CovEdge("L", "A", m1, l1), CovEdge(n2, "A", m2, 10)>>,
       pipe_end |-> {}] :
        l1 \in {10, 200}, n2 \in {"B", "L"},
        m1 \in {"Steel", "Clay"}, m2 \in {"Steel", "Clay"} }

\* L - A with two further pipes A - B and A - C
BranchGraphs ==
    { [edges |-> <<CovEdge("L", "A", "Steel", 10),
                   CovEdge("A", "B", m2, l2),
                   CovEdge("A", "C", m3, l3)>>,
       pipe_end |-> pe] :
        l2 \in CovLengths, l3 \in CovLengths,
        m2 \in CovMaterials, m3 \in CovMaterials, pe \in SUBSET {"B"} }

CovGraphs ==
    ChainGraphs \cup CycleGraphs \cup ParallelGraphs \cup BranchGraphs
        \cup UnknownMaterialGraphs

\* query_graph_dma_logger_nodes: the network nodes that carry a logger.
CovLoggers == { SubSeq(<<"L", "A", "B">>, 1, k) : k \in 1..MaxLoggers }

NoneYet(g) == [e \in 1..Len(g.edges) |-> <<>>]

InitCov ==
    /\ \E g \in CovGraphs, loggers \in CovLoggers :
         /\ cov_graph = [edges |-> g.edges, pipe_end |-> g.pipe_end,
                         loggers |-> loggers]
         /\ coverage = NoneYet(g)
         /\ fraction = NoneYet(g)
    /\ cpc = "loggers"
    /\ logger_i = 1
    /\ connected_edges = <<>> /\ ce_i = 0
    /\ processed_edges = {} /\ processed_nodes = {}
    /\ stack = <<>> /\ csv = <<>> /\ updates = <<>>
    /\ conv_in = <<>> /\ conv_out = <<>>
    /\ pc = "coverage"
    /\ base_pipe = <<>>
    /\ junctions_with_positions = <<>>
    /\ point_assets_with_positions = <<>>
    /\ nodes_ordered = <<>>
    /\ out = NoOutput
    /\ network_edge_labels = <<>>
    /\ enc_in = <<>> /\ enc_out = <<>>
    /\ conn_in = <<>> /\ conn_out = <<>>
    /\ pipes = <<>> /\ all_by_pipe = <<>>
    /\ AggIdle /\ RunIdle

other_vars == <<pipe_vars, key_vars, conn_vars, batch_vars, agg_vars,
                conv_vars, run_vars>>

Top == stack[Len(stack)]
Pop == SubSeq(stack, 1, Len(stack) - 1)

\* update_edge_attributes as part of a step: the database, the file and the
\* record of the call, with the depth of the call stack and the node whose
\* edge list the edge was taken from.
UpdateEdgeAttributes(e, coverage_len, is_partial, is_from_partial) ==
    LET edge == cov_graph.edges[e]
        matched == MatchedEdges(cov_graph, edge.start, edge.end)
    IN  /\ coverage' = CoverageAfter(coverage, matched, logger_i, coverage_len)
        /\ \E order \in ListsOfSet(matched) :
               csv' = csv \o CsvRows(cov_graph, order, edge.start, edge.end,
                                     logger_i, coverage_len)
        /\ updates' = Append(updates,
               [logger |-> logger_i, pipe_id |-> e, covered |-> coverage_len,
                partial |-> is_partial, from_partial |-> is_from_partial,
                depth |-> Len(stack),
                from_node |-> IF stack = <<>> THEN cov_graph.loggers[logger_i]
                              ELSE Top.fetched_at])

\* process_loggers: the head of the loop over the loggers.
NextLogger ==
    /\ cpc = "loggers"
    /\ IF logger_i > Len(cov_graph.loggers)
       THEN /\ cpc' = "fraction"
            /\ UNCHANGED <<connected_edges, ce_i, processed_edges,
                           processed_nodes>>
       ELSE /\ connected_edges' \in
                   get_next_edges(cov_graph, cov_graph.loggers[logger_i], {})
            /\ ce_i' = 1
            /\ processed_edges' = {}
            /\ processed_nodes' = {}
            /\ cpc' = "first_hop"
    /\ UNCHANGED <<cov_graph, logger_i, stack, coverage, csv, fraction,
                   updates>>
    /\ UNCHANGED other_vars

\* process_loggers: one iteration of the loop over connected_edges.
FirstHopEdge ==
    /\ cpc = "first_hop" /\ stack = <<>>
    /\ IF ce_i > Len(connected_edges)
       THEN /\ logger_i' = logger_i + 1
            /\ cpc' = "loggers"
            /\ UNCHANGED <<ce_i, processed_edges, processed_nodes, stack,
                           coverage, csv, updates>>
       ELSE LET e == connected_edges[ce_i]
                edge == cov_graph.edges[e]
                node == cov_graph.loggers[logger_i]
                pipe_length == QInt(edge.segment_length)
            IN  IF ~HasDetectionDist(edge.material)
                THEN /\ cpc' = "error"
                     /\ UNCHANGED <<logger_i, ce_i, processed_edges,
                                    processed_nodes, stack, coverage, csv,
                                    updates>>
                ELSE LET travel_distance == QInt(detection_dist[edge.material])
                         remaining_distance == QSub(travel_distance, pipe_length)
                     IN  /\ ce_i' = ce_i + 1
                         /\ UNCHANGED <<logger_i, cpc>>
                         /\ IF QLe(pipe_length, travel_distance)
                            THEN /\ UpdateEdgeAttributes(e, pipe_length,
                                                         FALSE, FALSE)
                                 /\ processed_edges' = processed_edges \cup {e}
                                 /\ processed_nodes' = processed_nodes \cup {node}
                                 /\ stack' =
                                      IF QPos(remaining_distance)
                                      THEN <<NewFrame(
                                               FarNode(edge,
                                                   processed_nodes \cup {node}),
                                               remaining_distance,
                                               edge.material)>>
                                      ELSE <<>>
                            ELSE /\ UpdateEdgeAttributes(e, travel_distance,
                                                         TRUE, FALSE)
                                 /\ UNCHANGED <<processed_edges,
                                                processed_nodes, stack>>
    /\ UNCHANGED <<cov_graph, connected_edges, fraction>>
    /\ UNCHANGED other_vars

\* process_connected_edges: the check at entry.
EnterCall ==
    /\ cpc = "first_hop" /\ stack # <<>> /\ Top.at = "entry"
    /\ stack' = IF check_for_pipe_end(cov_graph, Top.node_key)
                THEN Pop
                ELSE Append(Pop, [Top EXCEPT !.at = "while"])
    /\ UNCHANGED <<cov_graph, cpc, logger_i, connected_edges, ce_i,
                   processed_edges, processed_nodes, coverage, csv, fraction,
                   updates>>
    /\ UNCHANGED other_vars

\* process_connected_edges: the head of the while loop and the query.
WhileLoop ==
    /\ cpc = "first_hop" /\ stack # <<>> /\ Top.at \in {"while", "return"}
    /\ IF Top.at = "while" /\ QPos(Top.remaining_distance)
       THEN /\ processed_nodes' = processed_nodes \cup {Top.node_key}
            /\ \E next_edges \in get_next_edges(cov_graph, Top.node_key,
                                                processed_edges) :
                 stack' = Append(Pop, [Top EXCEPT
                              !.next_edges = next_edges,
                              !.fetched_at = Top.node_key,
                              !.per_edge_distance = Top.remaining_distance,
                              !.i = 1,
                              !.at = "for",
                              !.from_partial = Top.broke_on_partial,
                              !.broke_on_partial = FALSE])
       ELSE /\ stack' = Pop
            /\ UNCHANGED processed_nodes
    /\ UNCHANGED <<cov_graph, cpc, logger_i, connected_edges, ce_i,
                   processed_edges, coverage, csv, fraction, updates>>
    /\ UNCHANGED other_vars

\* process_connected_edges: one iteration of the for loop.
ForEdge ==
    /\ cpc = "first_hop" /\ stack # <<>> /\ Top.at = "for"
    /\ IF Top.i > Len(Top.next_edges)
       THEN /\ stack' = Append(Pop, ForElse(Top))
            /\ UNCHANGED <<cpc, processed_edges, coverage, csv, updates>>
       ELSE LET Apply(r) ==
                    IF ~r.ok
                    THEN /\ cpc' = "error"
                         /\ UNCHANGED <<stack, processed_edges, coverage, csv,
                                        updates>>
                    ELSE /\ UpdateEdgeAttributes(Top.next_edges[Top.i],
                                                 r.covered, r.partial,
                                                 Top.from_partial)
                         /\ processed_edges' =
                                processed_edges \cup {Top.next_edges[Top.i]}
                         /\ stack' =
                                IF r.call
                                THEN Append(Append(Pop, r.frame),
                                            NewFrame(r.frame.node_key,
                                                     r.frame.remaining_distance,
                                                     r.frame.pipe_material))
                                ELSE Append(Pop, r.frame)
                         /\ UNCHANGED cpc
            IN  Apply(ForStep(cov_graph, Top, processed_nodes))
    /\ UNCHANGED <<cov_graph, logger_i, connected_edges, ce_i,
                   processed_nodes, fraction>>
    /\ UNCHANGED other_vars

\* compute_cov: update_edge_coverage_fraction after process_loggers
UpdateEdgeCoverageFraction ==
    /\ cpc = "fraction"
    /\ fraction' = update_edge_coverage_fraction(cov_graph, csv, fraction)
    /\ cpc' = "done"
    /\ UNCHANGED <<cov_graph, logger_i, connected_edges, ce_i,
                   processed_edges, processed_nodes, stack, coverage, csv,
                   updates>>
    /\ UNCHANGED other_vars

NextCov ==
    \/ NextLogger
    \/ FirstHopEdge
    \/ EnterCall
    \/ WhileLoop
    \/ ForEdge
    \/ UpdateEdgeCoverageFraction

SpecCov == InitCov /\ [][NextCov]_vars

\* The statements of process_loggers and of the calls it makes.
ProcessLoggersStep ==
    \/ NextLogger
    \/ FirstHopEdge
    \/ EnterCall
    \/ WhileLoop
    \/ ForEdge

\* The interpreter does not stop inside process_loggers: while one of its
\* statements can run, one does.
SpecCovLive == SpecCov /\ WF_vars(ProcessLoggersStep)

\* C15: after compute_cov the coverage fraction persisted on an edge is at
\* most 100, and exactly 100 on an edge of length zero.
C15_FractionAtMost100 ==
    (cpc = "done") =>
        \A e \in 1..Len(fraction) :
            fraction[e] # <<>> =>
                /\ QLe(fraction[e][1], QInt(100))
                /\ cov_graph.edges[e].segment_length = 0
                       => fraction[e][1] = QInt(100)

\* C16: within the traversal of one logger update_edge_attributes is called
\* at most once for an edge.
C16_OneUpdatePerEdge ==
    \A i, j \in 1..Len(updates) :
        (updates[i].logger = updates[j].logger
           /\ updates[i].pipe_id = updates[j].pipe_id) => i = j

\* C17: on a graph whose edge materials are all in the detection table
\* process_loggers returns: every call of process_connected_edges and every
\* while loop in it comes to an end, for every logger.
C17_ProcessLoggersTerminates ==
    (\A e \in 1..Len(cov_graph.edges) :
         HasDetectionDist(cov_graph.edges[e].material))
        => <>(cpc = "fraction")

\* process_loggers has returned on a cycle through the logger's node with an
\* edge of length zero and no pipe end, after going round the cycle.
C17_Witness ==
    /\ cpc = "fraction"
    /\ Len(cov_graph.edges) = 3
    /\ "L" \in {cov_graph.edges[3].start, cov_graph.edges[3].end}
    /\ cov_graph.pipe_end = {}
    /\ \E e \in 1..3 : cov_graph.edges[e].segment_length = 0
    /\ Len(updates) >= 3

\* C18: an edge longer than the distance that is left gets exactly that
\* distance (at the first hop the detection distance of its material, less
\* than its length), and no edge is covered afterwards by going on from the
\* far end of the partially covered edge.
C18_PartialCoverStopsBranch ==
    \A k \in 1..Len(updates) :
        /\ updates[k].partial =>
              QLt(updates[k].covered,
                  QInt(cov_graph.edges[updates[k].pipe_id].segment_length))
        /\ (updates[k].partial
               /\ \A j \in 1..(k - 1) : updates[j].logger # updates[k].logger)
             => updates[k].covered =
                  QInt(detection_dist[
                         cov_graph.edges[updates[k].pipe_id].material])
        /\ ~updates[k].from_partial

\* C20: an edge whose material is not in the detection table never gets a
\* coverage record, and neither the loop of process_loggers nor a for loop of
\* process_connected_edges ever goes on past such an edge.
C20_UnknownMaterialIsError ==
    /\ \A e \in 1..Len(coverage) :
           ~HasDetectionDist(cov_graph.edges[e].material) => coverage[e] = <<>>
    /\ \A k \in 1..Len(connected_edges) :
           ~HasDetectionDist(cov_graph.edges[connected_edges[k]].material)
               => ce_i <= k
    /\ \A d \in 1..Len(stack) : \A k \in 1..Len(stack[d].next_edges) :
           ~HasDetectionDist(cov_graph.edges[stack[d].next_edges[k]].material)
               => stack[d].i <= k

(***************************************************************************)
(* Specification SpecCrossings: the terminal stage and the non-terminal    *)
(* junction stage on up to MaxCrossings pipes that cross the base pipe     *)
(* strictly between its ends.                                              *)
(***************************************************************************)
MaxCrossings == 3

\* Positions (thousandths) strictly inside the pipe where a pipe crosses;
\* 296 and 304 fall on the same rounded centimetre.
CrossingPositions(length) == {p \in {296, 304, 700} : p < length}

\* The i-th crossing pipe meets the base pipe at one point.
CrossingCandidates(geom) ==
    { [i \in 1..Len(ps) |->
          [tag |-> JunctionTag(i),
           wkt |-> [geom_type |-> "LineString",
                    points |-> <<PointAt(geom, ps[i])>>]]] :
        ps \in SeqUpTo(CrossingPositions(geom.length), MaxCrossings) }

\* _set_node_properties up to the junction stage, on the crossing pipes of
\* the call.
SetCrossingNodes ==
    /\ pc = "terminal"
    /\ \E pipe_junctions \in CrossingCandidates(base_pipe.geometry) :
         LET conn == _get_connections_points_on_pipe(base_pipe, pipe_junctions)
         IN  /\ junctions_with_positions' = conn.data
             /\ nodes_ordered' =
                    _set_non_terminal_nodes(
                        base_pipe, nodes_ordered,
                        _get_non_termini_intersecting_pipes(base_pipe, conn.data))
    /\ pc' = "junctions"
    /\ UNCHANGED <<base_pipe, point_assets_with_positions, out,
                   network_edge_labels>>
    /\ UNCHANGED <<key_vars, conn_vars, batch_vars>>
    /\ UNCHANGED ext_vars

NextCrossings ==
    \/ SetTerminalNodes
    \/ SetCrossingNodes

SpecCrossings == Init /\ [][NextCrossings]_vars

\* C21: after the junction stage on at least one crossing pipe, every
\* crossing pipe's tag is in the tag set of the junction entry at the pipe's
\* own rounded distance and in the tag set of no entry at another distance,
\* and no two junction entries have the same distance.
C21_MergeIntoSameDistance ==
    (pc = "junctions" /\ junctions_with_positions # <<>>) =>
        LET crossing == _get_non_termini_intersecting_pipes(
                            base_pipe, junctions_with_positions)
        IN  /\ \A k \in 1..Len(crossing) : \A i \in 1..Len(nodes_ordered) :
                   InList(crossing[k].tag, nodes_ordered[i].pipe_tags)
                       <=> (/\ nodes_ordered[i].node_type = PIPE_JUNCTION__NAME
                            /\ nodes_ordered[i].distance_from_pipe_start_cm
                                   = crossing[k].distance_from_pipe_start_cm)
            /\ \A i, j \in 1..Len(nodes_ordered) :
                   (/\ nodes_ordered[i].node_type = PIPE_JUNCTION__NAME
                    /\ nodes_ordered[j].node_type = PIPE_JUNCTION__NAME
                    /\ nodes_ordered[i].distance_from_pipe_start_cm
                           = nodes_ordered[j].distance_from_pipe_start_cm)
                       => i = j

(***************************************************************************)
(* Further properties of the per-pipe transformation (specification Spec). *)
(***************************************************************************)

\* C22: every position group yields as many asset nodes as it has asset
\* entries, one for each entry's tag, and no two asset nodes of a group share
\* a key.
C22_AssetNodePerAsset ==
    (pc = "done" /\ out.ok) =>
        LET groups == _consolidate_nodes_on_position(nodes_ordered)
        IN  \A g \in 1..Len(groups) :
                LET entries == SelectSeq(groups[g],
                                   LAMBDA n : n.node_type = POINT_ASSET__NAME)
                    emitted == out.asset_nodes_by_pipe[g]
                IN  /\ Len(emitted) = Len(entries)
                    /\ \A i \in 1..Len(entries) :
                           \E j \in 1..Len(emitted) :
                               emitted[j].tag = entries[i].tag
                    /\ \A i, j \in 1..Len(emitted) :
                           emitted[i].node_key = emitted[j].node_key => i = j

\* C23: every attachment edge joins a pipe node and an asset node of one
\* position group: the group the asset node was emitted for is also the
\* group that yielded the pipe node the edge starts from.
C23_AttachmentWithinGroup ==
    (pc = "done" /\ out.ok) =>
        LET groups == _consolidate_nodes_on_position(nodes_ordered)
            PipeNodesOf(g) ==
                _create_pipe_asset_nodes(groups[g]).all_pipe_node_data
        IN  \A k \in 1..Len(out.pipe_node_to_asset_node_edges) :
                \E g \in 1..Len(groups) :
                    /\ \E j \in 1..Len(out.asset_nodes_by_pipe[g]) :
                           out.asset_nodes_by_pipe[g][j].node_key
                               = out.pipe_node_to_asset_node_edges[k].to_node_key
                    /\ \E j \in 1..Len(PipeNodesOf(g)) :
                           PipeNodesOf(g)[j].node_key
                               = out.pipe_node_to_asset_node_edges[k].from_node_key

\* C24: after the terminal, junction and asset stages every position group
\* of the consolidated list holds at most one pipe_end or pipe_junction
\* entry.
C24_OneStructuralPerGroup ==
    pc \in {"assets", "done"} =>
        LET groups == _consolidate_nodes_on_position(nodes_ordered)
        IN  \A g \in 1..Len(groups) :
                Cardinality({ i \in 1..Len(groups[g]) :
                    groups[g][i].node_type
                        \in {PIPE_END__NAME, PIPE_JUNCTION__NAME} }) <= 1

\* C25: the segment_length of every pipe-segment edge is the distance along
\* the pipe's line between the projections of its two nodes (positions in
\* thousandths, segment_length in units of 1e-5).
C25_SegmentLengthIsDistance ==
    (pc = "done" /\ out.ok) =>
        \A i \in 1..Len(out.edges_by_pipe) :
            LET from_location == line_locate_point(
                    base_pipe.geometry, out.nodes_by_pipe[i].coords_27700)
                to_location == line_locate_point(
                    base_pipe.geometry, out.nodes_by_pipe[i + 1].coords_27700)
            IN  out.edges_by_pipe[i].segment_length
                    = 100 * (to_location - from_location)

(***************************************************************************)
(* Further properties of the aggregator (specification SpecAgg).           *)
(***************************************************************************)

\* C26: in the result of every pipe of a batch, the node at the pipe's start
\* (resp. end) is a PipeJunction exactly when another pipe of the batch
\* touches that end point and a PipeEnd exactly when none does, and its tags
\* are the sorted tags of the pipe and of the pipes touching there.
C26_TerminalClassification ==
    pc = "batch_done" =>
        \A k \in 1..Len(all_by_pipe) :
            LET nodes == all_by_pipe[k].nodes_by_pipe
                pipe == CHOOSE p \in Range(pipes) :
                            PointAt(p.geometry, 0) = nodes[1].coords_27700
                On(q, point) ==
                    IF q.geometry.axis = "x"
                    THEN /\ point[2] = q.geometry.y0
                         /\ point[1] - q.geometry.x0 \in 0..q.geometry.length
                    ELSE /\ point[1] = q.geometry.x0
                         /\ point[2] - q.geometry.y0 \in 0..q.geometry.length
                Touching(point) ==
                    { q \in Range(pipes) \ {pipe} : On(q, point) }
                Classified(node, point) ==
                    /\ node.coords_27700 = point
                    /\ InList(PIPE_JUNCTION__LABEL, node.node_labels)
                           <=> Touching(point) # {}
                    /\ InList(PIPE_END__LABEL, node.node_labels)
                           <=> Touching(point) = {}
                    /\ Range(node.pipe_tags)
                           = {pipe.tag} \cup { q.tag : q \in Touching(point) }
                    /\ node.pipe_tags = Sorted(node.pipe_tags)
            IN  Len(nodes) >= 2 =>
                    /\ Classified(nodes[1], PointAt(pipe.geometry, 0))
                    /\ Classified(nodes[Len(nodes)],
                                  PointAt(pipe.geometry, pipe.geometry.length))

(***************************************************************************)
(* Further properties of the coverage traversal (specification SpecCov).   *)
(***************************************************************************)

\* C27: inside process_connected_edges no edge is recorded as covered that
\* was taken from the edge list of a node labelled PipeEnd.
C27_NoCoveragePastPipeEnd ==
    \A k \in 1..Len(updates) :
        updates[k].depth >= 1
            => ~check_for_pipe_end(cov_graph, updates[k].from_node)

\* The pipe graph is a tree: connected (as every graph here) with one edge
\* less than it has nodes.
CovNodes(g) == UNION { {g.edges[e].start, g.edges[e].end} : e \in 1..Len(g.edges) }
IsAcyclic(g) == Cardinality(CovNodes(g)) = Len(g.edges) + 1

\* The coverage a logger is expected to leave on edge e, reached at its node
\* `near` with the distance `arrive` left (in the units of the edge's
\* material), and on the edges behind it: min(length, arrive) on e, and on
\* every other edge at the far node the rest, rescaled by D[new] / D[old].
RECURSIVE ExpectedCoverage(_, _, _, _)
ExpectedCoverage(g, near, e, arrive) ==
    LET edge == g.edges[e]
        len == QInt(edge.segment_length)
        far == IF edge.start = near THEN edge.end ELSE edge.start
    IN  {[pipe_id |-> e, covered |-> IF QLe(len, arrive) THEN len ELSE arrive]}
        \cup
        IF QLt(len, arrive)
        THEN UNION { ExpectedCoverage(g, far, f,
                         QMul(QDiv(QSub(arrive, len),
                                   QInt(detection_dist[edge.material])),
                              QInt(detection_dist[g.edges[f].material]))) :
                     f \in EdgesAt(g, far) \ {e} }
        ELSE {}

\* From the logger's node every edge starts with the detection distance of
\* its own material.
ExpectedOfLogger(g, node) ==
    UNION { ExpectedCoverage(g, node, e,
                             QInt(detection_dist[g.edges[e].material])) :
            e \in EdgesAt(g, node) }

\* C28: on an acyclic graph whose materials are all in the table, every
\* coverage a logger records on an edge is min(edge length, distance left on
\* arrival), the distance starting at the detection distance of the first
\* edge's material, reduced by each fully covered edge, rescaled by
\* D[new] / D[old] at a change of material and not shared between the edges
\* that leave one node.
C28_CoverageIsMinOfLengthAndRemaining ==
    (/\ IsAcyclic(cov_graph)
     /\ \A e \in 1..Len(cov_graph.edges) :
            HasDetectionDist(cov_graph.edges[e].material))
        => \A k \in 1..Len(updates) :
               [pipe_id |-> updates[k].pipe_id, covered |-> updates[k].covered]
                   \in ExpectedOfLogger(cov_graph,
                                        cov_graph.loggers[updates[k].logger])

\* The keys of the nodes emitted for the pipe.
EmittedNodeKeys ==
    { out.nodes_by_pipe[i].node_key : i \in 1..Len(out.nodes_by_pipe) }
        \cup { n.node_key : n \in Range(flatten_concatenation(out.asset_nodes_by_pipe)) }

\* C29: every DMA record and every utility record emitted for a pipe points
\* to an emitted pipe node or asset node of that pipe, and both ends of every
\* pipe-segment edge and of every attachment edge are emitted nodes.
C29_ReferentialIntegrity ==
    (pc = "done" /\ out.ok) =>
        /\ \A k \in 1..Len(out.dma_data) :
               out.dma_data[k].to_node_key \in EmittedNodeKeys
        /\ \A k \in 1..Len(out.utility_data) :
               out.utility_data[k].to_node_key \in EmittedNodeKeys
        /\ \A k \in 1..Len(out.edges_by_pipe) :
               /\ out.edges_by_pipe[k].from_node_key \in EmittedNodeKeys
               /\ out.edges_by_pipe[k].to_node_key \in EmittedNodeKeys
        /\ \A k \in 1..Len(out.pipe_node_to_asset_node_edges) :
               /\ out.pipe_node_to_asset_node_edges[k].from_node_key
                      \in EmittedNodeKeys
               /\ out.pipe_node_to_asset_node_edges[k].to_node_key
                      \in EmittedNodeKeys

(***************************************************************************)
(* run_gis2neo4j: the offsets and the batches of pipes (specification      *)
(* SpecRun).  An optional argument is <<>> for None and <<v>> for v.       *)
(***************************************************************************)

MaxPipeCount == 4
MaxQueryOffset == 3
MaxQueryLimit == 4
MaxBatchSize == 3

\* get_pipe_mains_pks: the primary keys of the pipes, in ascending order.
PipesPks(pipe_count) == [i \in 1..pipe_count |-> 10 + 3 * i]

\* Python's truth value of an optional integer
Truthy(opt) == opt # <<>> /\ opt[1] # 0

\* get_query_offset_limit; None + int raises TypeError (ok = FALSE).
get_query_offset_limit(pipes_pks, query_limit, query_offset) ==
    LET pipe_count == Len(pipes_pks)
        offset == IF ~Truthy(query_offset) THEN 0 ELSE query_offset[1]
    IN  IF ~Truthy(query_limit)
        THEN [ok |-> TRUE, query_offset |-> offset, query_limit |-> pipe_count]
        ELSE IF query_offset = <<>>
        THEN [ok |-> FALSE, query_offset |-> 0, query_limit |-> 0]
        ELSE IF query_offset[1] + query_limit[1] = pipe_count
        THEN [ok |-> TRUE, query_offset |-> offset, query_limit |-> pipe_count]
        ELSE [ok |-> TRUE, query_offset |-> offset,
              query_limit |-> query_offset[1] + query_limit[1]]

\* list(pipes_qs.filter(pk__gte=start_pk)[:batch_size]), the queryset being
\* ordered by pk
PipeData(pipes_pks, start_pk, batch_size) ==
    LET rest == SelectSeq(pipes_pks, LAMBDA pk : pk >= start_pk)
    IN  SubSeq(rest, 1, IF Len(rest) < batch_size THEN Len(rest) ELSE batch_size)

InitRun ==
    /\ \E pipe_count \in 0..MaxPipeCount,
          query_offset \in {<<>>} \cup { <<v>> : v \in 0..MaxQueryOffset },
          query_limit \in {<<>>} \cup { <<v>> : v \in 0..MaxQueryLimit },
          batch_size \in 1..MaxBatchSize :
         run = [pipes_pks |-> PipesPks(pipe_count),
                initial_query_offset |-> query_offset,
                initial_query_limit |-> query_limit,
                batch_size |-> batch_size,
                at |-> "start",
                query_offset |-> 0, query_limit |-> 0, offset |-> 0,
                batches |-> <<>>]
    /\ pc = "run"
    /\ base_pipe = <<>>
    /\ junctions_with_positions = <<>>
    /\ point_assets_with_positions = <<>>
    /\ nodes_ordered = <<>>
    /\ out = NoOutput
    /\ network_edge_labels = <<>>
    /\ enc_in = <<>> /\ enc_out = <<>>
    /\ conn_in = <<>> /\ conn_out = <<>>
    /\ pipes = <<>> /\ all_by_pipe = <<>>
    /\ AggIdle /\ CovIdle

\* run_gis2neo4j up to the for loop
GetQueryOffsetLimit ==
    /\ pc = "run" /\ run.at = "start"
    /\ LET r == get_query_offset_limit(run.pipes_pks, run.initial_query_limit,
                                       run.initial_query_offset)
       IN  run' = IF r.ok
                  THEN [run EXCEPT !.at = "loop",
                                   !.query_offset = r.query_offset,
                                   !.query_limit = r.query_limit,
                                   !.offset = r.query_offset]
                  ELSE [run EXCEPT !.at = "error"]
    /\ UNCHANGED <<pipe_vars, key_vars, conn_vars, batch_vars, agg_vars,
                   cov_vars, conv_vars>>

\* for offset in range(query_offset, query_limit, batch_size): one turn of
\* the loop, or its end; pipes_pks[offset] raises IndexError past the end of
\* the list.
RunBatch ==
    /\ pc = "run" /\ run.at = "loop"
    /\ run' = IF run.offset >= run.query_limit
              THEN [run EXCEPT !.at = "done"]
              ELSE IF run.offset >= Len(run.pipes_pks)
              THEN [run EXCEPT !.at = "error"]
              ELSE [run EXCEPT
                      !.batches =
                          Append(@, PipeData(run.pipes_pks,
                                             run.pipes_pks[run.offset + 1],
                                             run.batch_size)),
                      !.offset = @ + run.batch_size]
    /\ UNCHANGED <<pipe_vars, key_vars, conn_vars, batch_vars, agg_vars,
                   cov_vars, conv_vars>>

NextRun == GetQueryOffsetLimit \/ RunBatch

SpecRun == InitRun /\ [][NextRun]_vars

\* The positions (from 0) in the primary-key list of the pipes of the
\* batches, one entry for every pipe of every batch.
ProcessedPositions ==
    LET pks == flatten_concatenation(run.batches)
    IN  [k \in 1..Len(pks) |->
            CHOOSE i \in 0..(Len(run.pipes_pks) - 1) :
                run.pipes_pks[i + 1] = pks[k]]

\* The end of the requested range: no limit (None or 0) means all pipes.
RequestedEnd ==
    LET count == Len(run.pipes_pks)
        upto == run.initial_query_offset[1] + run.initial_query_limit[1]
    IN  IF ~Truthy(run.initial_query_limit) THEN count
        ELSE IF upto < count THEN upto ELSE count

\* C30: with a query_offset >= 0, run_gis2neo4j never indexes past the end
\* of the primary-key list, and when it has finished its batches hold every
\* pipe at the positions query_offset .. min(query_offset + query_limit,
\* count) - 1 exactly once and no other pipe.
C30_BatchesCoverRange ==
    (pc = "run" /\ run.initial_query_offset # <<>>) =>
        /\ run.at # "error"
        /\ \A k \in 1..Len(ProcessedPositions) :
               /\ ProcessedPositions[k] >= run.initial_query_offset[1]
               /\ ProcessedPositions[k] < RequestedEnd
        /\ \A j, k \in 1..Len(ProcessedPositions) :
               ProcessedPositions[j] = ProcessedPositions[k] => j = k
        /\ run.at = "done" =>
               \A p \in run.initial_query_offset[1]..(RequestedEnd - 1) :
                   \E k \in 1..Len(ProcessedPositions) :
                       ProcessedPositions[k] = p

====
